---------------------------- MODULE Spec2Model ----------------------------
(***************************************************************************)
(* BrandGuard AI: the brand-compliance engine of the Adobe Express add-on. *)
(*                                                                         *)
(* Strings the code inspects character by character (hex colours, font    *)
(* names, layer names) are sequences of one-character strings.  An        *)
(* optional configuration value (a JSON field that may be absent) is a    *)
(* sequence of length 0 (absent) or 1 (present).  A colour distance, which *)
(* the code computes with Math.sqrt, is represented by its radicand: the  *)
(* square root is strictly monotone on the integers involved, so every    *)
(* comparison the code makes is made on the radicands.                    *)
(***************************************************************************)
EXTENDS Integers, Sequences, FiniteSets, TLC

VARIABLES
    brandRules,             \* main.js: the loaded brand rules
    colorChecker,           \* ColorChecker fields: approvedColors, tolerance
    fontChecker,            \* FontChecker fields: approvedFonts, defaultFont
    logoChecker,            \* LogoChecker fields: logoRules, identifier
    layers,                 \* the host document's layers, in layer order
    docBounds,              \* the host document's bounds (optional)
    pc,                     \* position of runComplianceCheck
    colorData,              \* result of extractDocumentColors, once settled
    fontData,               \* result of extractDocumentFonts, once settled
    logoData,               \* result of validateLogo, once settled
    currentComplianceData,  \* main.js global: the last report of checkAll
    scoreNumber,            \* the score written to the display
    caught,                 \* evaluations of the current run that took their catch block
    call,                   \* the last direct call of a checker method
    mutatorLog,             \* layer mutator calls of the current fix, in call order
    fix,                    \* the fix handler in progress and the results it has so far
    running                 \* per fix handler, its position when handlers overlap

vars == <<brandRules, colorChecker, fontChecker, logoChecker, layers, docBounds,
          pc, colorData, fontData, logoData, currentComplianceData, scoreNumber,
          caught, call, mutatorLog, fix, running>>

(***************************************************************************)
(* Bounds of the model.                                                    *)
(***************************************************************************)
MaxApproved == 2      \* approved colours / fonts in a directly probed checker
MaxLayers == 2        \* layers of a document
MaxViolations == 7    \* violations in one category's result, score scenarios

(***************************************************************************)
(* JavaScript values.                                                      *)
(***************************************************************************)
Null == [null |-> TRUE]
Pending == [pending |-> TRUE]

Min(a, b) == IF a < b THEN a ELSE b
Max(a, b) == IF a > b THEN a ELSE b

\* x || dflt for an optional number: undefined and 0 are both falsy.
NumberOr(opt, dflt) == IF opt = <<>> \/ opt[1] = 0 THEN dflt ELSE opt[1]

\* x || dflt for an optional string: undefined and "" are both falsy.
StringOr(opt, dflt) == IF opt = <<>> \/ opt[1] = <<>> THEN dflt ELSE opt[1]

(***************************************************************************)
(* String primitives.                                                      *)
(***************************************************************************)
UpperChars == <<"A","B","C","D","E","F","G","H","I","J","K","L","M",
                "N","O","P","Q","R","S","T","U","V","W","X","Y","Z">>
LowerChars == <<"a","b","c","d","e","f","g","h","i","j","k","l","m",
                "n","o","p","q","r","s","t","u","v","w","x","y","z">>
HexChars == <<"0","1","2","3","4","5","6","7","8","9","a","b","c","d","e","f">>
WhiteSpace == {" ", "\t"}

IndexOf(seq, c) == CHOOSE k \in 1..Len(seq) : seq[k] = c
IsIn(seq, c) == \E k \in 1..Len(seq) : seq[k] = c

toLowerCaseChar(c) == IF IsIn(UpperChars, c) THEN LowerChars[IndexOf(UpperChars, c)] ELSE c
toUpperCaseChar(c) == IF IsIn(LowerChars, c) THEN UpperChars[IndexOf(LowerChars, c)] ELSE c
toLowerCase(s) == [i \in 1..Len(s) |-> toLowerCaseChar(s[i])]
toUpperCase(s) == [i \in 1..Len(s) |-> toUpperCaseChar(s[i])]

\* String.prototype.includes
includes(s, sub) ==
    \E i \in 0..(Len(s) - Len(sub)) : SubSeq(s, i + 1, i + Len(sub)) = sub

\* String.prototype.startsWith
startsWith(s, prefix) ==
    Len(s) >= Len(prefix) /\ SubSeq(s, 1, Len(prefix)) = prefix

\* String.prototype.trim
trim(s) ==
    LET keep == {i \in 1..Len(s) : s[i] \notin WhiteSpace}
    IN  IF keep = {} THEN <<>>
        ELSE SubSeq(s, CHOOSE i \in keep : \A j \in keep : i <= j,
                       CHOOSE i \in keep : \A j \in keep : i >= j)

\* s.replace(/\s+/g, ' '): every maximal run of whitespace becomes one space.
RECURSIVE collapseWhitespace(_)
collapseWhitespace(s) ==
    IF s = <<>> THEN <<>>
    ELSE IF Head(s) \in WhiteSpace
         THEN IF Len(s) > 1 /\ s[2] \in WhiteSpace
              THEN collapseWhitespace(Tail(s))
              ELSE <<" ">> \o collapseWhitespace(Tail(s))
         ELSE <<Head(s)>> \o collapseWhitespace(Tail(s))

\* parseInt(two hex digits, 16), case-insensitive
parseHexPair(c1, c2) ==
    16 * (IndexOf(HexChars, toLowerCaseChar(c1)) - 1)
       + (IndexOf(HexChars, toLowerCaseChar(c2)) - 1)

\* Number.prototype.toString(16) of a non-negative integer
RECURSIVE toString16(_)
toString16(n) ==
    IF n < 16 THEN <<HexChars[n + 1]>>
    ELSE toString16(n \div 16) \o <<HexChars[(n % 16) + 1]>>

(***************************************************************************)
(* ColorChecker                                                            *)
(***************************************************************************)
\* /^#?([a-f\d]{2})([a-f\d]{2})([a-f\d]{2})$/i, then parseInt of each pair
hexToRgb(hex) ==
    LET digits == IF Len(hex) > 0 /\ hex[1] = "#" THEN Tail(hex) ELSE hex
    IN  IF Len(digits) = 6
           /\ \A i \in 1..6 : IsIn(HexChars, toLowerCaseChar(digits[i]))
        THEN [r |-> parseHexPair(digits[1], digits[2]),
              g |-> parseHexPair(digits[3], digits[4]),
              b |-> parseHexPair(digits[5], digits[6])]
        ELSE Null

\* The radicand of Math.sqrt(dr * dr + dg * dg + db * db).
colorDistance(rgb1, rgb2) ==
    LET dr == rgb1.r - rgb2.r
        dg == rgb1.g - rgb2.g
        db == rgb1.b - rgb2.b
    IN  dr * dr + dg * dg + db * db

ColorCheckerNew(rules) ==
    [approvedColors |->
        [i \in 1..Len(rules.colors.approved) |->
            [name |-> rules.colors.approved[i].name,
             hex  |-> toUpperCase(rules.colors.approved[i].hex),
             rgb  |-> hexToRgb(rules.colors.approved[i].hex)]],
     tolerance |-> NumberOr(rules.colors.tolerance, 10)]

\* distance < minDistance, minDistance being Infinity (<<>>) or a distance
DistanceBelowOrEqualMin(distance, minDistance) ==
    minDistance = <<>> \/ distance <= minDistance[1]

DistanceBelowMin(distance, minDistance) ==
    minDistance = <<>> \/ distance < minDistance[1]

RECURSIVE findClosestLoop(_, _, _, _, _)
findClosestLoop(approved, targetRgb, i, minDistance, closestColor) ==
    IF i > Len(approved) THEN closestColor
    ELSE LET distance == colorDistance(targetRgb, approved[i].rgb)
         IN  IF DistanceBelowMin(distance, minDistance)
             THEN findClosestLoop(approved, targetRgb, i + 1, <<distance>>, approved[i])
             ELSE findClosestLoop(approved, targetRgb, i + 1, minDistance, closestColor)

findClosestBrandColor(checker, hex) ==
    LET targetRgb == hexToRgb(hex)
    IN  IF targetRgb = Null THEN Null
        ELSE findClosestLoop(checker.approvedColors, targetRgb, 1, <<>>, Null)

\* distance <= this.tolerance, on the radicand
DistanceStrictlyWithinTolerance(distance, tolerance) == distance < tolerance * tolerance

DistanceWithinTolerance(distance, tolerance) == distance <= tolerance * tolerance

RECURSIVE isApprovedLoop(_, _, _, _)
isApprovedLoop(approved, tolerance, targetRgb, i) ==
    IF i > Len(approved) THEN FALSE
    ELSE IF DistanceWithinTolerance(colorDistance(targetRgb, approved[i].rgb), tolerance)
         THEN TRUE
         ELSE isApprovedLoop(approved, tolerance, targetRgb, i + 1)

isColorApproved(checker, hex) ==
    LET targetRgb == hexToRgb(hex)
    IN  IF targetRgb = Null THEN FALSE
        ELSE isApprovedLoop(checker.approvedColors, checker.tolerance, targetRgb, 1)


\* layer.fill.color, layer.stroke.color, layer.textColor: absent ("none"), a
\* string ("hex", with its characters in s) or an object with r, g, b ("rgb").
NoColor == [kind |-> "none"]
HexColor(s) == [kind |-> "hex", s |-> s]
RgbColor(r, g, b) == [kind |-> "rgb", r |-> r, g |-> g, b |-> b]

\* JavaScript truthiness of a colour value: absent and "" are falsy.
ColorPresent(c) == c.kind = "rgb" \/ (c.kind = "hex" /\ c.s # <<>>)

\* A string not starting with '#' has no r, g, b properties: each reads as 0.
rgbToHex(rgb) ==
    IF rgb.kind = "hex" /\ startsWith(rgb.s, <<"#">>)
    THEN toUpperCase(rgb.s)
    ELSE LET r == IF rgb.kind = "rgb" THEN rgb.r ELSE 0
             g == IF rgb.kind = "rgb" THEN rgb.g ELSE 0
             b == IF rgb.kind = "rgb" THEN rgb.b ELSE 0
             pad(x) == LET hex == toString16(x)
                       IN  IF Len(hex) = 1 THEN <<"0">> \o hex ELSE hex
         IN  toUpperCase(<<"#">> \o pad(r) \o pad(g) \o pad(b))

UnnamedLayer == <<"U","n","n","a","m","e","d"," ","L","a","y","e","r">>
UnnamedText == <<"U","n","n","a","m","e","d"," ","T","e","x","t">>

\* colors.add(hex) on a Set, read back with Array.from: insertion order, no repeats
SetAdd(seq, x) == IF IsIn(seq, x) THEN seq ELSE Append(seq, x)

\* One of the three "Check ... colors" blocks of the loop body.
checkColorAttribute(checker, layer, type, present, color, acc) ==
    IF ~present THEN acc
    ELSE LET hex == rgbToHex(color)
         IN  [colors |-> SetAdd(acc.colors, hex),
              violations |->
                 IF ~isColorApproved(checker, hex)
                 THEN Append(acc.violations,
                             [layerId |-> layer.id,
                              layerName |-> IF layer.name # <<>> THEN layer.name
                                            ELSE UnnamedLayer,
                              type |-> type,
                              currentColor |-> hex,
                              closestBrandColor |-> findClosestBrandColor(checker, hex)])
                 ELSE acc.violations]

\* The loop body with the stroke block chained to the fill block by an else.
colorLoopBodyElseIf(checker, layer, acc) ==
    LET f == checkColorAttribute(checker, layer, "fill",
                                 ColorPresent(layer.fill), layer.fill, acc)
        s == IF ColorPresent(layer.fill) THEN f
             ELSE checkColorAttribute(checker, layer, "stroke",
                                      ColorPresent(layer.stroke), layer.stroke, f)
    IN  checkColorAttribute(checker, layer, "text",
                            layer.type = "text" /\ ColorPresent(layer.textColor),
                            layer.textColor, s)

colorLoopBody(checker, layer, acc) ==
    LET f == checkColorAttribute(checker, layer, "fill",
                                 ColorPresent(layer.fill), layer.fill, acc)
        s == checkColorAttribute(checker, layer, "stroke",
                                 ColorPresent(layer.stroke), layer.stroke, f)
    IN  checkColorAttribute(checker, layer, "text",
                            layer.type = "text" /\ ColorPresent(layer.textColor),
                            layer.textColor, s)

RECURSIVE colorLoop(_, _, _, _)
colorLoop(checker, ls, i, acc) ==
    IF i > Len(ls) THEN acc
    ELSE colorLoop(checker, ls, i + 1, colorLoopBody(checker, ls[i], acc))

getMockColorData(checker) ==
    [allColors |-> << <<"#","F","F","0","0","0","0">>,
                      <<"#","0","0","6","6","C","C">>,
                      <<"#","F","F","F","F","F","F">> >>,
     violations |-> << [layerId |-> "layer1",
                        layerName |-> <<"B","a","c","k","g","r","o","u","n","d">>,
                        type |-> "fill",
                        currentColor |-> <<"#","F","F","0","0","0","0">>,
                        closestBrandColor |->
                            findClosestBrandColor(checker, <<"#","F","F","0","0","0","0">>)] >>,
     isCompliant |-> FALSE]

\* providerOk: getDocument() and getLayers() both resolve; otherwise the catch
\* block returns the mock data.
extractDocumentColors(checker, ls, providerOk) ==
    IF providerOk
    THEN LET acc == colorLoop(checker, ls, 1, [colors |-> <<>>, violations |-> <<>>])
         IN  [allColors |-> acc.colors,
              violations |-> acc.violations,
              isCompliant |-> Len(acc.violations) = 0]
    ELSE getMockColorData(checker)

\* getMockFixResult(type)
getMockFixResult(type) == [fixed |-> 1, message |-> "demo mode", type |-> type]

\* layers.find(l => l.id === layerId): the index of the layer, 0 when none.
RECURSIVE findLayerById(_, _, _)
findLayerById(ls, layerId, i) ==
    IF i > Len(ls) THEN 0
    ELSE IF ls[i].id = layerId THEN i
         ELSE findLayerById(ls, layerId, i + 1)

\* One colour mutator call: setFillColor, setStrokeColor or setTextColor.
SetColorCall(op, layerId, rgb, ok) ==
    [op |-> op, layerId |-> layerId, color |-> rgb, ok |-> ok]

\* The mutator of a violation's type, "none" when no branch of the if chain
\* applies to the layer.
colorMutator(violation, layer) ==
    IF violation.type = "fill" /\ layer.fill.kind # "none" THEN "setFillColor"
    ELSE IF violation.type = "stroke" /\ layer.stroke.kind # "none" THEN "setStrokeColor"
    ELSE IF violation.type = "text" /\ layer.type = "text" THEN "setTextColor"
    ELSE "none"

\* The layer after a colour mutator resolved.
withColor(layer, op, rgb) ==
    LET color == RgbColor(rgb.r, rgb.g, rgb.b)
    IN  IF op = "setFillColor" THEN [layer EXCEPT !.fill = color]
        ELSE IF op = "setStrokeColor" THEN [layer EXCEPT !.stroke = color]
        ELSE [layer EXCEPT !.textColor = color]

\* The fix loop abandoned at the first mutator call that rejects.
RECURSIVE colorFixLoopAborting(_, _, _, _)
colorFixLoopAborting(violations, i, failed, acc) ==
    IF i > Len(violations) THEN acc
    ELSE LET violation == violations[i]
             at == findLayerById(acc.layers, violation.layerId, 1)
         IN  IF at = 0 \/ violation.closestBrandColor = Null
             THEN colorFixLoopAborting(violations, i + 1, failed, acc)
             ELSE LET replacementRgb == violation.closestBrandColor.rgb
                      op == colorMutator(violation, acc.layers[at])
                      ok == i \notin failed
                      called == IF op = "none" THEN acc.calls
                                ELSE Append(acc.calls,
                                            SetColorCall(op, violation.layerId,
                                                         replacementRgb, ok))
                  IN  IF op # "none" /\ ~ok
                      THEN [acc EXCEPT !.calls = called]
                      ELSE colorFixLoopAborting(violations, i + 1, failed,
                              [layers |-> IF op = "none" THEN acc.layers
                                          ELSE [acc.layers EXCEPT
                                                  ![at] = withColor(@, op, replacementRgb)],
                               calls |-> called,
                               fixedCount |-> acc.fixedCount + 1])

\* The loop over the violations.  failed: the violations whose mutator call
\* rejects.  fixedCount++ follows the if chain inside the try block, so it
\* counts a violation whose chain called no mutator.
RECURSIVE colorFixLoop(_, _, _, _)
colorFixLoop(violations, i, failed, acc) ==
    IF i > Len(violations) THEN acc
    ELSE LET violation == violations[i]
             at == findLayerById(acc.layers, violation.layerId, 1)
         IN  IF at = 0 \/ violation.closestBrandColor = Null
             THEN colorFixLoop(violations, i + 1, failed, acc)
             ELSE LET replacementRgb == violation.closestBrandColor.rgb
                      op == colorMutator(violation, acc.layers[at])
                      ok == i \notin failed
                      called == IF op = "none" THEN acc.calls
                                ELSE Append(acc.calls,
                                            SetColorCall(op, violation.layerId,
                                                         replacementRgb, ok))
                  IN  IF op # "none" /\ ~ok
                      THEN colorFixLoop(violations, i + 1, failed,
                                        [acc EXCEPT !.calls = called])
                      ELSE colorFixLoop(violations, i + 1, failed,
                              [layers |-> IF op = "none" THEN acc.layers
                                          ELSE [acc.layers EXCEPT
                                                  ![at] = withColor(@, op, replacementRgb)],
                               calls |-> called,
                               fixedCount |-> acc.fixedCount + 1])

\* fixColorViolations.  providerOk: the provider resolves inside
\* extractDocumentColors; providerAgainOk: it resolves for the second
\* getDocument() / getLayers(), whose rejection reaches the outer catch.
fixColorViolations(checker, ls, providerOk, providerAgainOk, failed) ==
    LET data == extractDocumentColors(checker, ls, providerOk)
    IN  IF Len(data.violations) = 0
        THEN [layers |-> ls, calls |-> <<>>,
              result |-> [fixed |-> 0, message |-> "No color violations found"]]
        ELSE IF ~providerAgainOk
        THEN [layers |-> ls, calls |-> <<>>, result |-> getMockFixResult("colors")]
        ELSE LET acc == colorFixLoop(data.violations, 1, failed,
                                     [layers |-> ls, calls |-> <<>>, fixedCount |-> 0])
             IN  [layers |-> acc.layers, calls |-> acc.calls,
                  result |-> [fixed |-> acc.fixedCount,
                              message |-> "Fixed color violation(s)"]]

(***************************************************************************)
(* FontChecker                                                             *)
(***************************************************************************)
FontCheckerNew(rules) ==
    [approvedFonts |->
        [i \in 1..Len(rules.fonts.approved) |->
            trim(toLowerCase(rules.fonts.approved[i].name))],
     defaultFont |-> rules.fonts.default]

normalizeFontName(fontName) ==
    IF fontName = <<>> THEN <<>>
    ELSE collapseWhitespace(trim(toLowerCase(fontName)))

fontNamesMatch(normalized, approvedFont) ==
    includes(normalized, approvedFont) \/ includes(approvedFont, normalized)

RECURSIVE fontLoop(_, _, _)
fontLoop(approvedFonts, normalized, i) ==
    IF i > Len(approvedFonts) THEN FALSE
    ELSE IF fontNamesMatch(normalized, approvedFonts[i]) THEN TRUE
         ELSE fontLoop(approvedFonts, normalized, i + 1)

isFontApproved(checker, fontName) ==
    LET normalized == normalizeFontName(fontName)
    IN  IF IsIn(checker.approvedFonts, normalized) THEN TRUE
        ELSE fontLoop(checker.approvedFonts, normalized, 1)

RECURSIVE fontExtractLoop(_, _, _, _)
fontExtractLoop(checker, ls, i, acc) ==
    IF i > Len(ls) THEN acc
    ELSE LET layer == ls[i]
         IN  IF layer.type = "text" /\ layer.fontFamily # <<>>
             THEN fontExtractLoop(checker, ls, i + 1,
                     [fonts |-> SetAdd(acc.fonts, layer.fontFamily),
                      violations |->
                         IF ~isFontApproved(checker, layer.fontFamily)
                         THEN Append(acc.violations,
                                     [layerId |-> layer.id,
                                      layerName |-> IF layer.name # <<>> THEN layer.name
                                                    ELSE UnnamedText,
                                      currentFont |-> layer.fontFamily,
                                      replacementFont |-> checker.defaultFont.name])
                         ELSE acc.violations])
             ELSE fontExtractLoop(checker, ls, i + 1, acc)

getMockFontData(checker) ==
    [allFonts |-> << <<"C","o","m","i","c"," ","S","a","n","s"," ","M","S">>,
                     <<"R","o","b","o","t","o">> >>,
     violations |-> << [layerId |-> "text1",
                        layerName |-> <<"H","e","a","d","i","n","g">>,
                        currentFont |-> <<"C","o","m","i","c"," ","S","a","n","s"," ","M","S">>,
                        replacementFont |-> checker.defaultFont.name] >>,
     isCompliant |-> FALSE]

extractDocumentFonts(checker, ls, providerOk) ==
    IF providerOk
    THEN LET acc == fontExtractLoop(checker, ls, 1, [fonts |-> <<>>, violations |-> <<>>])
         IN  [allFonts |-> acc.fonts,
              violations |-> acc.violations,
              isCompliant |-> Len(acc.violations) = 0]
    ELSE getMockFontData(checker)

\* One font mutator call.
SetFontFamilyCall(layerId, fontFamily, ok) ==
    [op |-> "setFontFamily", layerId |-> layerId, fontFamily |-> fontFamily, ok |-> ok]

\* The loop over the font violations.  failed: the violations whose mutator
\* call rejects.
RECURSIVE fontFixLoop(_, _, _, _, _)
fontFixLoop(checker, violations, i, failed, acc) ==
    IF i > Len(violations) THEN acc
    ELSE LET violation == violations[i]
             at == findLayerById(acc.layers, violation.layerId, 1)
         IN  IF at = 0 \/ acc.layers[IF at = 0 THEN 1 ELSE at].type # "text"
             THEN fontFixLoop(checker, violations, i + 1, failed, acc)
             ELSE LET ok == i \notin failed
                      called == Append(acc.calls,
                                       SetFontFamilyCall(violation.layerId,
                                                         checker.defaultFont.name, ok))
                  IN  IF ~ok
                      THEN fontFixLoop(checker, violations, i + 1, failed,
                                       [acc EXCEPT !.calls = called])
                      ELSE fontFixLoop(checker, violations, i + 1, failed,
                              [layers |-> [acc.layers EXCEPT
                                             ![at].fontFamily = checker.defaultFont.name],
                               calls |-> called,
                               fixedCount |-> acc.fixedCount + 1])

\* fixFontViolations, with the provider outcomes as in fixColorViolations.
fixFontViolations(checker, ls, providerOk, providerAgainOk, failed) ==
    LET data == extractDocumentFonts(checker, ls, providerOk)
    IN  IF Len(data.violations) = 0
        THEN [layers |-> ls, calls |-> <<>>,
              result |-> [fixed |-> 0, message |-> "No font violations found"]]
        ELSE IF ~providerAgainOk
        THEN [layers |-> ls, calls |-> <<>>, result |-> getMockFixResult("fonts")]
        ELSE LET acc == fontFixLoop(checker, data.violations, 1, failed,
                                    [layers |-> ls, calls |-> <<>>, fixedCount |-> 0])
             IN  [layers |-> acc.layers, calls |-> acc.calls,
                  result |-> [fixed |-> acc.fixedCount,
                              message |-> "Fixed font violation(s)"]]

(***************************************************************************)
(* LogoChecker.  A ratio is a fraction num/den with den > 0; widths,       *)
(* heights and coordinates are integers.                                   *)
(***************************************************************************)
Ratio(num, den) == [num |-> num, den |-> den]
RatioLess(a, b) == a.num * b.den < b.num * a.den

LogoCheckerNew(rules) ==
    [logoRules |-> rules.logo,
     identifier |-> StringOr(rules.logo.identifier, <<"l","o","g","o">>)]

\* The name test without toLowerCase on the layer name.
isLogoLayerCaseSensitive(checker, layer) ==
    IF layer.name = <<>> THEN FALSE
    ELSE LET layerName == layer.name
             identifier == toLowerCase(checker.identifier)
         IN  \/ includes(layerName, identifier)
             \/ layerName = <<"l","o","g","o">>
             \/ layerName = <<"b","r","a","n","d">>

isLogoLayer(checker, layer) ==
    IF layer.name = <<>> THEN FALSE
    ELSE LET layerName == toLowerCase(layer.name)
             identifier == toLowerCase(checker.identifier)
         IN  \/ includes(layerName, identifier)
             \/ layerName = <<"l","o","g","o">>
             \/ layerName = <<"b","r","a","n","d">>

\* The ratio with a zero height read as a square.
getAspectRatioSquareOnZero(width, height) ==
    IF height = 0 THEN Ratio(1, 1) ELSE Ratio(width, height)

getAspectRatio(width, height) ==
    IF height = 0 THEN Ratio(0, 1) ELSE Ratio(width, height)

\* The position check measuring the distance from the left and top edges only.
isPositionAllowedNearEdgesOnly(checker, bounds, documentWidth, documentHeight) ==
    LET rules == checker.logoRules
        minDistance == NumberOr(rules.minDistanceFromEdge, 20)
        centerX6 == 6 * bounds.x + 3 * bounds.width
        centerY6 == 6 * bounds.y + 3 * bounds.height
        isTop == centerY6 < 2 * documentHeight
        isBottom == centerY6 > 4 * documentHeight
        isLeft == centerX6 < 2 * documentWidth
        isRight == centerX6 > 4 * documentWidth
        position == IF isTop /\ isLeft THEN "top-left"
                    ELSE IF isTop /\ isRight THEN "top-right"
                    ELSE IF isBottom /\ isLeft THEN "bottom-left"
                    ELSE IF isBottom /\ isRight THEN "bottom-right"
                    ELSE "center"
    IN  IF ~IsIn(rules.allowedPositions, position)
        THEN [allowed |-> FALSE, position |-> position,
              reason |-> "Position not in allowed list"]
        ELSE IF bounds.x < minDistance \/ bounds.y < minDistance
             THEN [allowed |-> FALSE, position |-> position,
                   reason |-> "Too close to edge"]
             ELSE [allowed |-> TRUE, position |-> position, reason |-> ""]

\* centerX = x + width / 2 against documentWidth / 3 and documentWidth * 2 / 3,
\* each comparison multiplied through by 6.
isPositionAllowed(checker, bounds, documentWidth, documentHeight) ==
    LET rules == checker.logoRules
        minDistance == NumberOr(rules.minDistanceFromEdge, 20)
        centerX6 == 6 * bounds.x + 3 * bounds.width
        centerY6 == 6 * bounds.y + 3 * bounds.height
        isTop == centerY6 < 2 * documentHeight
        isBottom == centerY6 > 4 * documentHeight
        isLeft == centerX6 < 2 * documentWidth
        isRight == centerX6 > 4 * documentWidth
        position == IF isTop /\ isLeft THEN "top-left"
                    ELSE IF isTop /\ isRight THEN "top-right"
                    ELSE IF isBottom /\ isLeft THEN "bottom-left"
                    ELSE IF isBottom /\ isRight THEN "bottom-right"
                    ELSE "center"
        allowed == rules.allowedPositions
        distanceFromLeft == bounds.x
        distanceFromRight == documentWidth - (bounds.x + bounds.width)
        distanceFromTop == bounds.y
        distanceFromBottom == documentHeight - (bounds.y + bounds.height)
    IN  IF ~IsIn(allowed, position)
        THEN [allowed |-> FALSE, position |-> position,
              reason |-> "Position not in allowed list"]
        ELSE IF \/ distanceFromLeft < minDistance
                \/ distanceFromRight < minDistance
                \/ distanceFromTop < minDistance
                \/ distanceFromBottom < minDistance
             THEN [allowed |-> FALSE, position |-> position,
                   reason |-> "Too close to edge"]
             ELSE [allowed |-> TRUE, position |-> position, reason |-> ""]

\* layers.find(...): the index of the layer found, 0 when there is none.
RECURSIVE findFrom(_, _, _)
findFrom(checker, ls, i) ==
    IF i > Len(ls) THEN 0
    ELSE IF isLogoLayer(checker, ls[i]) THEN i
         ELSE findFrom(checker, ls, i + 1)

findLogoLayer(checker, ls) == findFrom(checker, ls, 1)

getMockLogoData ==
    [found |-> TRUE,
     isCompliant |-> FALSE,
     violations |-> << [text |-> "Logo size is below minimum"],
                       [text |-> "Logo position is not in allowed area"] >>,
     bounds |-> [width |-> 50, height |-> 30, x |-> 10, y |-> 10],
     aspectRatio |-> Ratio(167, 100),
     position |-> "center"]

\* document.bounds || { width: 1920, height: 1080 }
DefaultDocBounds == [width |-> 1920, height |-> 1080]
DocBoundsOr(doc) == IF doc = <<>> THEN DefaultDocBounds ELSE doc[1]

\* logoLayer is the index of the layer object in the document's layer list.
validateLogo(checker, ls, doc, providerOk) ==
    IF ~providerOk THEN getMockLogoData
    ELSE LET logoLayer == findLogoLayer(checker, ls)
         IN  IF logoLayer = 0
             THEN [found |-> FALSE,
                   isCompliant |-> FALSE,
                   violations |-> << [text |-> "Logo not found in document"] >>,
                   message |-> "No logo layer detected. Name a layer \"logo\" to enable validation."]
             ELSE LET rules == checker.logoRules
                      bounds == ls[logoLayer].bounds
                      width == bounds.width
                      height == bounds.height
                      v1 == IF width < rules.minWidth
                            THEN << [text |-> "Logo width is below minimum",
                                     value |-> width, limit |-> rules.minWidth] >>
                            ELSE <<>>
                      v2 == IF height < rules.minHeight
                            THEN << [text |-> "Logo height is below minimum",
                                     value |-> height, limit |-> rules.minHeight] >>
                            ELSE <<>>
                      aspectRatio == getAspectRatio(width, height)
                      v3 == IF \/ RatioLess(aspectRatio, rules.aspectRatio.min)
                               \/ RatioLess(rules.aspectRatio.max, aspectRatio)
                            THEN << [text |-> "Logo aspect ratio is outside allowed range",
                                     value |-> aspectRatio,
                                     min |-> rules.aspectRatio.min,
                                     max |-> rules.aspectRatio.max] >>
                            ELSE <<>>
                      db == DocBoundsOr(doc)
                      positionCheck ==
                          isPositionAllowed(checker, bounds,
                                            IF db.width = 0 THEN 1920 ELSE db.width,
                                            IF db.height = 0 THEN 1080 ELSE db.height)
                      v4 == IF ~positionCheck.allowed
                            THEN << [text |-> "Logo position is not allowed",
                                     position |-> positionCheck.position,
                                     reason |-> positionCheck.reason] >>
                            ELSE <<>>
                      violations == v1 \o v2 \o v3 \o v4
                  IN  [found |-> TRUE,
                       isCompliant |-> Len(violations) = 0,
                       violations |-> violations,
                       logoLayer |-> logoLayer,
                       bounds |-> bounds,
                       aspectRatio |-> aspectRatio,
                       position |-> positionCheck.position]

\* The value of a one-element set.  A value that several later expressions
\* read is bound as the element of such a set, so that it is computed once.
TheOne(S) == CHOOSE x \in S : TRUE

\* n / r and n * r for a rational r.  The documents and rules of the model are
\* chosen so that the quotient is an integer; a quotient that is not is kept as
\* a fraction, which no later integer comparison accepts.
DivideBy(n, r) ==
    IF (n * r.den) % r.num = 0 THEN (n * r.den) \div r.num
    ELSE Ratio(n * r.den, r.num)
MultiplyBy(n, r) ==
    IF (n * r.num) % r.den = 0 THEN (n * r.num) \div r.den
    ELSE Ratio(n * r.num, r.den)

\* One layer mutator call: the operation, the layer, the value and whether the
\* call resolved (ok) or rejected.
SetBoundsCall(layerId, b, ok) ==
    [op |-> "setBounds", layerId |-> layerId, bounds |-> b, ok |-> ok]

\* The size stage left out: the dimensions pass through as they are.
minimumSizeSkipped(rules, bounds) ==
    [width |-> bounds.width, height |-> bounds.height, fixes |-> <<>>]

\* The size stage: each dimension below its minimum is set to the minimum.
minimumSize(rules, bounds) ==
    [width |-> IF bounds.width < rules.minWidth THEN rules.minWidth ELSE bounds.width,
     height |-> IF bounds.height < rules.minHeight THEN rules.minHeight ELSE bounds.height,
     fixes |-> (IF bounds.width < rules.minWidth THEN <<"width">> ELSE <<>>)
               \o (IF bounds.height < rules.minHeight THEN <<"height">> ELSE <<>>)]

\* The aspect-ratio stage left out: the dimensions pass through as they are.
aspectRatioSizeUnchanged(rules, size) ==
    size

\* The aspect-ratio stage, on the dimensions the size stage produced.
aspectRatioSize(rules, size) ==
    LET aspectRatio == getAspectRatio(size.width, size.height)
    IN  IF RatioLess(aspectRatio, rules.aspectRatio.min)
        THEN [size EXCEPT !.height = DivideBy(size.width, rules.aspectRatio.min),
                          !.fixes = Append(size.fixes, "aspect ratio")]
        ELSE IF RatioLess(rules.aspectRatio.max, aspectRatio)
             THEN [size EXCEPT !.width = MultiplyBy(size.height, rules.aspectRatio.max),
                               !.fixes = Append(size.fixes, "aspect ratio")]
             ELSE size

\* fixLogoViolations.  providerOk: getDocument() and getLayers() resolve inside
\* validateLogo.  layerDoc: logoLayer.document?.bounds (optional).  sizeOk and
\* positionOk: whether the two setBounds calls resolve.  The result carries the
\* layers after the mutations, the mutator calls made, and the value returned.
\* With the mock validation logoLayer is undefined: the size setBounds throws
\* inside its try block and logoLayer.document throws to the outer catch.
fixLogoViolations(checker, ls, doc, providerOk, layerDoc, sizeOk, positionOk) ==
    TheOne({
        IF ~validation.found
        THEN [layers |-> ls, calls |-> <<>>,
              result |-> [fixed |-> 0, message |-> validation.message]]
        ELSE IF validation.isCompliant
        THEN [layers |-> ls, calls |-> <<>>,
              result |-> [fixed |-> 0, message |-> "Logo is already compliant"]]
        ELSE IF ~providerOk
        THEN [layers |-> ls, calls |-> <<>>, result |-> getMockFixResult("logo")]
        ELSE TheOne({ TheOne({
        LET logoLayer == validation.logoLayer
            rules == checker.logoRules
            bounds == validation.bounds
            newWidth == size.width
            newHeight == size.height
            sizeBounds == [width |-> newWidth, height |-> newHeight,
                           x |-> bounds.x, y |-> bounds.y]
            sizeCalls == IF Len(size.fixes) > 0
                         THEN << SetBoundsCall(ls[logoLayer].id, sizeBounds, sizeOk) >>
                         ELSE <<>>
            afterSize == IF Len(size.fixes) > 0 /\ sizeOk
                         THEN [ls EXCEPT ![logoLayer].bounds = sizeBounds]
                         ELSE ls
            minDistance == NumberOr(rules.minDistanceFromEdge, 20)
            positionBounds == [x |-> minDistance, y |-> minDistance,
                               width |-> newWidth, height |-> newHeight]
            positionCalls == IF ~positionCheck.allowed
                             THEN << SetBoundsCall(ls[logoLayer].id, positionBounds,
                                                   positionOk) >>
                             ELSE <<>>
            afterPosition == IF ~positionCheck.allowed /\ positionOk
                             THEN [afterSize EXCEPT ![logoLayer].bounds = positionBounds]
                             ELSE afterSize
            fixedCount == (IF Len(size.fixes) > 0 /\ sizeOk THEN 1 ELSE 0)
                          + (IF ~positionCheck.allowed /\ positionOk THEN 1 ELSE 0)
            fixes == size.fixes
                     \o (IF ~positionCheck.allowed /\ positionOk
                         THEN <<"position">> ELSE <<>>)
        IN  [layers |-> afterPosition,
             calls |-> sizeCalls \o positionCalls,
             result |-> [fixed |-> fixedCount,
                         message |-> IF fixedCount > 0 THEN "Fixed logo"
                                     ELSE "Could not fix logo violations",
                         fixes |-> fixes]]
        : positionCheck \in
            { isPositionAllowed(checker,
                                [validation.bounds EXCEPT !.width = size.width,
                                                          !.height = size.height],
                                DocBoundsOr(layerDoc).width,
                                DocBoundsOr(layerDoc).height) } })
        : size \in { aspectRatioSize(checker.logoRules,
                                     minimumSize(checker.logoRules, validation.bounds)) } })
        : validation \in { validateLogo(checker, ls, doc, providerOk) } })

(***************************************************************************)
(* ComplianceChecker                                                       *)
(***************************************************************************)
\* The report with a logo that was not found counted as no violation.
checkAllReportNotFoundUncounted(cData, fData, lData) ==
    [colors |->
        [isCompliant |-> cData.isCompliant,
         violations |-> cData.violations,
         violationCount |-> Len(cData.violations),
         details |-> IF cData.isCompliant
                     THEN [text |-> "All colors match brand guidelines"]
                     ELSE [text |-> "color violation(s) found",
                           n |-> Len(cData.violations)]],
     fonts |->
        [isCompliant |-> fData.isCompliant,
         violations |-> fData.violations,
         violationCount |-> Len(fData.violations),
         details |-> IF fData.isCompliant
                     THEN [text |-> "All fonts are brand-approved"]
                     ELSE [text |-> "font violation(s) found",
                           n |-> Len(fData.violations)]],
     logo |->
        [isCompliant |-> lData.isCompliant,
         violations |-> lData.violations,
         violationCount |-> IF lData.found THEN Len(lData.violations) ELSE 0,
         details |-> IF ~lData.found
                     THEN [text |-> "Logo not found in document"]
                     ELSE IF lData.isCompliant
                          THEN [text |-> "Logo placement and size are correct"]
                          ELSE [text |-> "logo violation(s) found",
                                n |-> Len(lData.violations)]]]

\* The object literal checkAll returns, from the three settled results.
checkAllReport(cData, fData, lData) ==
    [colors |->
        [isCompliant |-> cData.isCompliant,
         violations |-> cData.violations,
         violationCount |-> Len(cData.violations),
         details |-> IF cData.isCompliant
                     THEN [text |-> "All colors match brand guidelines"]
                     ELSE [text |-> "color violation(s) found",
                           n |-> Len(cData.violations)]],
     fonts |->
        [isCompliant |-> fData.isCompliant,
         violations |-> fData.violations,
         violationCount |-> Len(fData.violations),
         details |-> IF fData.isCompliant
                     THEN [text |-> "All fonts are brand-approved"]
                     ELSE [text |-> "font violation(s) found",
                           n |-> Len(fData.violations)]],
     logo |->
        [isCompliant |-> lData.isCompliant,
         violations |-> lData.violations,
         violationCount |-> IF lData.found THEN Len(lData.violations) ELSE 1,
         details |-> IF ~lData.found
                     THEN [text |-> "Logo not found in document"]
                     ELSE IF lData.isCompliant
                          THEN [text |-> "Logo placement and size are correct"]
                          ELSE [text |-> "logo violation(s) found",
                                n |-> Len(lData.violations)]]]

\* Math.ceil(violationCount / 2) for a count >= 0
ceilHalf(n) == (n + 1) \div 2

\* Math.min(deductionPerViolation * Math.ceil(violationCount / 2), 30)
deductionUncapped(violationCount) == 10 * ceilHalf(violationCount)

\* Math.ceil(2 / violationCount): the operands of the division exchanged
deductionSwapped(violationCount) ==
    IF violationCount = 0 THEN 30
    ELSE Min(10 * ((2 + violationCount - 1) \div violationCount), 30)

deductionFloor(violationCount) == Min(10 * (violationCount \div 2), 30)

deduction(violationCount) == Min(10 * ceilHalf(violationCount), 30)

\* The three "score -=" statements written as "score +=".
scoreAfterDeductionsAdded(complianceData) ==
    100
    + (IF ~complianceData.colors.isCompliant
       THEN deduction(complianceData.colors.violationCount) ELSE 0)
    + (IF ~complianceData.fonts.isCompliant
       THEN deduction(complianceData.fonts.violationCount) ELSE 0)
    + (IF ~complianceData.logo.isCompliant
       THEN deduction(complianceData.logo.violationCount) ELSE 0)

scoreAfterDeductions(complianceData) ==
    100
    - (IF ~complianceData.colors.isCompliant
       THEN deduction(complianceData.colors.violationCount) ELSE 0)
    - (IF ~complianceData.fonts.isCompliant
       THEN deduction(complianceData.fonts.violationCount) ELSE 0)
    - (IF ~complianceData.logo.isCompliant
       THEN deduction(complianceData.logo.violationCount) ELSE 0)

\* Math.max(0, Math.round(score)): score is an integer, which Math.round keeps.
calculateScore(complianceData) == Max(0, scoreAfterDeductions(complianceData))

(***************************************************************************)
(* main.js: getDefaultBrandRules                                           *)
(***************************************************************************)
Roboto == <<"R","o","b","o","t","o">>
OpenSans == <<"O","p","e","n"," ","S","a","n","s">>

getDefaultBrandRules ==
    [colors |->
        [approved |-> <<
            [name |-> "Primary Blue",   hex |-> <<"#","0","0","6","6","C","C">>],
            [name |-> "Secondary Blue", hex |-> <<"#","0","0","3","D","7","A">>],
            [name |-> "Accent Orange",  hex |-> <<"#","F","F","6","6","0","0">>],
            [name |-> "Neutral Gray",   hex |-> <<"#","6","6","6","6","6","6">>],
            [name |-> "White",          hex |-> <<"#","F","F","F","F","F","F">>],
            [name |-> "Black",          hex |-> <<"#","0","0","0","0","0","0">>] >>,
         tolerance |-> <<10>>],
     fonts |->
        [approved |-> << [name |-> Roboto], [name |-> OpenSans] >>,
         default |-> [name |-> Roboto]],
     logo |->
        [identifier |-> << <<"l","o","g","o">> >>,
         minWidth |-> 100,
         minHeight |-> 50,
         aspectRatio |-> [min |-> Ratio(3, 2), max |-> Ratio(3, 1)],
         allowedPositions |-> <<"top-left", "top-right", "bottom-left", "bottom-right">>,
         minDistanceFromEdge |-> <<20>>]]

(***************************************************************************)
(* Documents.  A layer of the host document; its id is its place in the   *)
(* document.                                                               *)
(***************************************************************************)
LayerIds == <<"id1", "id2", "id3", "id4", "id5", "id6", "id7", "id8",
              "id9", "id10", "id11", "id12", "id13", "id14", "id15", "id16">>

Layer(name, type, fill, stroke, textColor, fontFamily, bounds) ==
    [name |-> name, type |-> type, fill |-> fill, stroke |-> stroke,
     textColor |-> textColor, fontFamily |-> fontFamily, bounds |-> bounds]

Bounds(x, y, width, height) == [x |-> x, y |-> y, width |-> width, height |-> height]

WithIds(ls) ==
    [i \in 1..Len(ls) |->
        [id |-> LayerIds[i], name |-> ls[i].name, type |-> ls[i].type,
         fill |-> ls[i].fill, stroke |-> ls[i].stroke, textColor |-> ls[i].textColor,
         fontFamily |-> ls[i].fontFamily, bounds |-> ls[i].bounds]]

SeqsUpTo(S, n) == UNION {[1..k -> S] : k \in 0..n}

(***************************************************************************)
(* Construction: new ComplianceChecker(brandRules) over a document, before *)
(* the first check.                                                        *)
(***************************************************************************)
\* No fix handler is running.
NoFix == [handler |-> "none", stage |-> "none"]

\* The four click handlers of the fix buttons.
Handlers == {"handleFixColors", "handleFixFonts", "handleFixLogo", "handleFixAll"}

\* A handler that is not running, before its first click and after it returned.
IdleHandler ==
    [stage |-> "idle", colorData |-> Null, fontData |-> Null, logoData |-> Null]

Constructed(rules, ls, doc) ==
    /\ brandRules = rules
    /\ colorChecker = ColorCheckerNew(rules)
    /\ fontChecker = FontCheckerNew(rules)
    /\ logoChecker = LogoCheckerNew(rules)
    /\ layers = WithIds(ls)
    /\ docBounds = doc
    /\ pc = "idle"
    /\ colorData = Null
    /\ fontData = Null
    /\ logoData = Null
    /\ currentComplianceData = Null
    /\ scoreNumber = <<>>
    /\ caught = {}
    /\ call = [fn |-> "none"]
    /\ mutatorLog = <<>>
    /\ fix = NoFix
    /\ running = [h \in Handlers |-> IdleHandler]

(***************************************************************************)
(* Direct calls of the colour matcher on a configured checker.             *)
(***************************************************************************)
ApprovedColorPool ==
    { [name |-> "Black", hex |-> <<"#","0","0","0","0","0","0">>],
      [name |-> "Ten",   hex |-> <<"#","0","0","0","a","0","0">>],
      [name |-> "Ten2",  hex |-> <<"0","0","0","A","0","0">>],
      [name |-> "White", hex |-> <<"#","F","F","F","F","F","F">>] }

TolerancePool == { <<>>, <<0>>, <<5>>, <<10>> }

ProbeHexes ==
    { <<"#","0","0","0","0","0","0">>,
      <<"#","0","3","0","4","0","0">>,
      <<"#","0","3","0","4","0","1">>,
      <<"#","0","0","0","0","0","a">>,
      <<"#","0","0","0","0","0","B">>,
      <<"#","0","0","0","5","0","0">>,
      <<"#","0","0","0","A","0","0">>,
      <<"f","f","f","f","f","e">>,
      <<"#","F","F","F">>,
      <<"#","0","0","0","0","0","G">>,
      <<"#","0","0","0","0","0","5","0">>,
      <<>> }

InitColorMatch ==
    \E approved \in SeqsUpTo(ApprovedColorPool, MaxApproved), tolerance \in TolerancePool :
        Constructed([getDefaultBrandRules EXCEPT
                        !.colors = [approved |-> approved, tolerance |-> tolerance]],
                    <<>>, <<>>)

IsColorApprovedCall ==
    /\ \E hex \in ProbeHexes :
          call' = [fn |-> "isColorApproved", arg |-> hex,
                   ret |-> isColorApproved(colorChecker, hex)]
    /\ UNCHANGED <<brandRules, colorChecker, fontChecker, logoChecker, layers,
                   docBounds, pc, colorData, fontData, logoData,
                   currentComplianceData, scoreNumber, caught,
                   mutatorLog, fix, running>>

FindClosestBrandColorCall ==
    /\ \E hex \in ProbeHexes :
          call' = [fn |-> "findClosestBrandColor", arg |-> hex,
                   ret |-> findClosestBrandColor(colorChecker, hex)]
    /\ UNCHANGED <<brandRules, colorChecker, fontChecker, logoChecker, layers,
                   docBounds, pc, colorData, fontData, logoData,
                   currentComplianceData, scoreNumber, caught,
                   mutatorLog, fix, running>>

NextColorMatch == IsColorApprovedCall \/ FindClosestBrandColorCall

SpecColorMatch == InitColorMatch /\ [][NextColorMatch]_vars

\* A well-formed hex colour: an optional '#', then exactly six hexadecimal digits.
HexDigitSet ==
    {"0","1","2","3","4","5","6","7","8","9",
     "a","b","c","d","e","f","A","B","C","D","E","F"}
WellFormedHex(hex) ==
    \E n \in {6, 7} :
        /\ Len(hex) = n
        /\ n = 7 => hex[1] = "#"
        /\ \A i \in (n - 5)..n : hex[i] \in HexDigitSet

\* Squared distances from a well-formed hex to each approved colour.
SqDistances(hex) ==
    {colorDistance(hexToRgb(hex), colorChecker.approvedColors[i].rgb) :
        i \in 1..Len(colorChecker.approvedColors)}

\* C5: isColorApproved(hex) is true exactly when hex is well-formed and the
\* minimum Euclidean RGB distance from hex to an approved colour is at most the
\* checker's tolerance, the boundary included; a malformed hex is never approved.
C5_ApprovedIffWithinTolerance ==
    call.fn = "isColorApproved" =>
        call.ret =
            (/\ WellFormedHex(call.arg)
             /\ SqDistances(call.arg) # {}
             /\ LET least == CHOOSE d \in SqDistances(call.arg) :
                                \A e \in SqDistances(call.arg) : d <= e
                IN  least <= colorChecker.tolerance * colorChecker.tolerance)

\* C5 witness: a colour at distance exactly the tolerance was approved.
C5_Witness ==
    /\ call.fn = "isColorApproved"
    /\ WellFormedHex(call.arg)
    /\ call.ret = TRUE
    /\ colorChecker.tolerance = 5
    /\ SqDistances(call.arg) # {}
    /\ \A d \in SqDistances(call.arg) : d >= 25
    /\ 25 \in SqDistances(call.arg)

\* C7: findClosestBrandColor(hex) returns an approved colour of minimal distance,
\* the earliest in the approved list among equidistant ones, and null when hex is
\* malformed or the approved list is empty.
C7_ClosestFirstDeclaredWins ==
    call.fn = "findClosestBrandColor" =>
        LET approved == colorChecker.approvedColors
            dist(i) == colorDistance(hexToRgb(call.arg), approved[i].rgb)
        IN  IF ~WellFormedHex(call.arg) \/ Len(approved) = 0
            THEN call.ret = Null
            ELSE \E i \in 1..Len(approved) :
                    /\ call.ret = approved[i]
                    /\ \A j \in 1..Len(approved) : dist(i) <= dist(j)
                    /\ \A j \in 1..(i - 1) : dist(j) > dist(i)

\* C7 witness: two different approved colours are equidistant from the target
\* and nearest to it, and the earlier one was returned.
C7_Witness ==
    /\ call.fn = "findClosestBrandColor"
    /\ WellFormedHex(call.arg)
    /\ Len(colorChecker.approvedColors) = 2
    /\ colorChecker.approvedColors[1] # colorChecker.approvedColors[2]
    /\ colorDistance(hexToRgb(call.arg), colorChecker.approvedColors[1].rgb)
         = colorDistance(hexToRgb(call.arg), colorChecker.approvedColors[2].rgb)
    /\ call.ret = colorChecker.approvedColors[1]

(***************************************************************************)
(* Direct calls of the font matcher on a configured checker.               *)
(***************************************************************************)
ApprovedFontPool ==
    { [name |-> Roboto],
      [name |-> OpenSans],
      [name |-> <<"O","p","e","n"," "," ","S","a","n","s">>],
      [name |-> <<" ","L","A","T","O"," ">>] }

ProbeFonts ==
    { Roboto,
      <<"r","o","b","o","t","o">>,
      OpenSans,
      <<"O","p","e","n"," "," ","S","a","n","s">>,
      <<"o","p","e","n","\t","s","a","n","s"," ","B","o","l","d">>,
      <<"L","a","t","o">>,
      <<"R","o","b">>,
      <<"C","o","m","i","c"," ","S","a","n","s"," ","M","S">>,
      <<>> }

InitFontMatch ==
    \E approved \in SeqsUpTo(ApprovedFontPool, MaxApproved) :
        Constructed([getDefaultBrandRules EXCEPT !.fonts.approved = approved],
                    <<>>, <<>>)

IsFontApprovedCall ==
    /\ \E fontName \in ProbeFonts :
          call' = [fn |-> "isFontApproved", arg |-> fontName,
                   ret |-> isFontApproved(fontChecker, fontName)]
    /\ UNCHANGED <<brandRules, colorChecker, fontChecker, logoChecker, layers,
                   docBounds, pc, colorData, fontData, logoData,
                   currentComplianceData, scoreNumber, caught,
                   mutatorLog, fix, running>>

NormalizeFontNameCall ==
    /\ \E fontName \in ProbeFonts :
          call' = [fn |-> "normalizeFontName", arg |-> fontName,
                   ret |-> normalizeFontName(fontName)]
    /\ UNCHANGED <<brandRules, colorChecker, fontChecker, logoChecker, layers,
                   docBounds, pc, colorData, fontData, logoData,
                   currentComplianceData, scoreNumber, caught,
                   mutatorLog, fix, running>>

NextFontMatch == IsFontApprovedCall \/ NormalizeFontNameCall

SpecFontMatch == InitFontMatch /\ [][NextFontMatch]_vars

\* The normal form of a font name: lowercase, no leading or trailing whitespace,
\* no whitespace other than single spaces between words.
IsNormalForm(s) ==
    /\ \A i \in 1..Len(s) : ~IsIn(UpperChars, s[i]) /\ s[i] # "\t"
    /\ Len(s) > 0 => s[1] # " " /\ s[Len(s)] # " "
    /\ \A i \in 1..(Len(s) - 1) : ~(s[i] = " " /\ s[i + 1] = " ")

\* C9: isFontApproved(name) is true exactly when, for some approved font, the
\* normalized input equals the approved font's normalized name or one of the two
\* is a substring of the other; the approved names the checker compares with are
\* in the same normal form (lowercase, trimmed, single-spaced) as the input.
C9_FontApprovedIffNormalizedMatch ==
    /\ call.fn = "normalizeFontName" => IsNormalForm(call.ret)
    /\ call.fn = "isFontApproved" =>
          call.ret =
             (\E i \in 1..Len(brandRules.fonts.approved) :
                 LET a == normalizeFontName(brandRules.fonts.approved[i].name)
                     n == normalizeFontName(call.arg)
                 IN  a = n \/ includes(a, n) \/ includes(n, a))

(***************************************************************************)
(* The add-on: runComplianceCheck over a document.                         *)
(***************************************************************************)
ComicSans == <<"C","o","m","i","c"," ","S","a","n","s">>
PlainBounds == Bounds(0, 0, 100, 100)

\* Layers that exercise the colour and font checks.
ColorLayerPool ==
    { Layer(<<"B","a","c","k","g","r","o","u","n","d">>, "shape",
            HexColor(<<"#","f","f","0","0","0","0">>),
            HexColor(<<"f","f","0","0","0","0">>), NoColor,
            <<>>, PlainBounds),
      Layer(<<"T","i","t","l","e">>, "text",
            HexColor(<<"#","0","0","6","6","C","E">>), RgbColor(0, 61, 122),
            HexColor(<<"#","1","2","3","4","5">>), Roboto, PlainBounds),
      Layer(<<>>, "shape",
            RgbColor(255, 255, 255), HexColor(<<"#","F","E","0","0","0","0">>),
            HexColor(<<"#","0","0","F","F","0","0">>), <<>>, PlainBounds),
      Layer(<<"B","a","d","g","e">>, "text",
            HexColor(<<"#","F","F","0","0","0","0">>), RgbColor(1, 200, 3),
            HexColor(<<"#","0","0","f","f","0","0">>), ComicSans, PlainBounds) }

\* Layers that exercise the logo checks.
LogoLayerPool ==
    { Layer(<<"L","o","g","o">>, "shape", NoColor, NoColor, NoColor,
            <<>>, Bounds(20, 20, 150, 75)),
      Layer(<<"b","r","a","n","d">>, "shape", NoColor, NoColor, NoColor,
            <<>>, Bounds(0, 0, 150, 75)),
      Layer(<<"C","o","m","p","a","n","y"," ","L","O","G","O"," ","v","2">>, "shape",
            NoColor, NoColor, NoColor, <<>>, Bounds(10, 10, 50, 30)),
      Layer(<<"B","r","a","n","d","M","a","r","k">>, "text", NoColor, NoColor, NoColor,
            Roboto, Bounds(900, 500, 200, 100)) }

ColorRulesPool ==
    { [getDefaultBrandRules EXCEPT !.colors.tolerance = t] : t \in { <<0>>, <<1>> } }

LogoRulesPool ==
    { [getDefaultBrandRules EXCEPT !.logo.identifier = id,
                                   !.logo.minDistanceFromEdge = d] :
        id \in { <<>>, << <<"M","a","r","k">> >> },
        d \in { <<>>, <<0>> } }

InitColors ==
    \E rules \in ColorRulesPool, ls \in SeqsUpTo(ColorLayerPool, MaxLayers) :
        Constructed(rules, ls, <<>>)

InitLogo ==
    \E rules \in LogoRulesPool, ls \in SeqsUpTo(LogoLayerPool, MaxLayers) :
        Constructed(rules, ls, <<>>)

Init == InitColors \/ InitLogo

\* runComplianceCheck up to checkAll's Promise.all: the three evaluations are
\* started and none has settled.  It is the initial check, a check run again,
\* or the recheck a fix handler awaits after its fix.
RunComplianceCheck ==
    /\ pc = "idle"
    /\ fix.stage \in {"none", "recheck", "done"}
    /\ pc' = "checking"
    /\ colorData' = Pending
    /\ fontData' = Pending
    /\ logoData' = Pending
    /\ caught' = {}
    /\ fix' = IF fix.stage = "recheck" THEN [fix EXCEPT !.stage = "done"] ELSE fix
    /\ UNCHANGED <<brandRules, colorChecker, fontChecker, logoChecker, layers,
                   docBounds, currentComplianceData, scoreNumber, call,
                   mutatorLog, running>>

\* The outcomes of the document provider during an evaluation: it resolves or
\* rejects; during the recheck of a fix handler, and afterwards, the documents
\* of the model are readable.
ProviderOutcomes == IF fix.stage = "none" THEN BOOLEAN ELSE {TRUE}

\* extractDocumentColors settles, from the document or from its catch block.
ExtractDocumentColors ==
    /\ pc = "checking"
    /\ colorData = Pending
    /\ \E providerOk \in ProviderOutcomes :
          /\ colorData' = extractDocumentColors(colorChecker, layers, providerOk)
          /\ caught' = IF providerOk THEN caught ELSE caught \cup {"colors"}
    /\ UNCHANGED <<brandRules, colorChecker, fontChecker, logoChecker, layers,
                   docBounds, pc, fontData, logoData, currentComplianceData,
                   scoreNumber, call,
                   mutatorLog, fix, running>>

\* extractDocumentFonts writing the default font to every text layer it reads.
ExtractDocumentFontsWriting ==
    /\ pc = "checking"
    /\ fontData = Pending
    /\ \E providerOk \in ProviderOutcomes :
          /\ fontData' = extractDocumentFonts(fontChecker, layers, providerOk)
          /\ caught' = IF providerOk THEN caught ELSE caught \cup {"fonts"}
    /\ layers' = [i \in 1..Len(layers) |->
                     IF layers[i].type = "text"
                     THEN [layers[i] EXCEPT !.fontFamily = fontChecker.defaultFont.name]
                     ELSE layers[i]]
    /\ UNCHANGED <<brandRules, colorChecker, fontChecker, logoChecker,
                   docBounds, pc, colorData, logoData, currentComplianceData,
                   scoreNumber, call,
                   mutatorLog, fix, running>>

\* extractDocumentFonts settles, from the document or from its catch block.
ExtractDocumentFonts ==
    /\ pc = "checking"
    /\ fontData = Pending
    /\ \E providerOk \in ProviderOutcomes :
          /\ fontData' = extractDocumentFonts(fontChecker, layers, providerOk)
          /\ caught' = IF providerOk THEN caught ELSE caught \cup {"fonts"}
    /\ UNCHANGED <<brandRules, colorChecker, fontChecker, logoChecker, layers,
                   docBounds, pc, colorData, logoData, currentComplianceData,
                   scoreNumber, call,
                   mutatorLog, fix, running>>

\* validateLogo settles, from the document or from its catch block.
ValidateLogo ==
    /\ pc = "checking"
    /\ logoData = Pending
    /\ \E providerOk \in ProviderOutcomes :
          /\ logoData' = validateLogo(logoChecker, layers, docBounds, providerOk)
          /\ caught' = IF providerOk THEN caught ELSE caught \cup {"logo"}
    /\ UNCHANGED <<brandRules, colorChecker, fontChecker, logoChecker, layers,
                   docBounds, pc, colorData, fontData, currentComplianceData,
                   scoreNumber, call,
                   mutatorLog, fix, running>>

\* checkAll returning as soon as one evaluation has settled, the others taken
\* from the demo data.
CheckAllJoinRace ==
    /\ pc = "checking"
    /\ colorData # Pending \/ fontData # Pending \/ logoData # Pending
    /\ currentComplianceData' =
          checkAllReport(
              IF colorData = Pending THEN getMockColorData(colorChecker) ELSE colorData,
              IF fontData = Pending THEN getMockFontData(fontChecker) ELSE fontData,
              IF logoData = Pending THEN getMockLogoData ELSE logoData)
    /\ scoreNumber' = <<calculateScore(currentComplianceData')>>
    /\ pc' = "idle"
    /\ UNCHANGED <<brandRules, colorChecker, fontChecker, logoChecker, layers,
                   docBounds, colorData, fontData, logoData, caught, call,
                   mutatorLog, fix, running>>

\* Promise.all resolves: checkAll returns its report, runComplianceCheck stores
\* it, computes the score and writes it to the display.
CheckAllJoin ==
    /\ pc = "checking"
    /\ colorData # Pending /\ fontData # Pending /\ logoData # Pending
    /\ currentComplianceData' = checkAllReport(colorData, fontData, logoData)
    /\ scoreNumber' = <<calculateScore(currentComplianceData')>>
    /\ pc' = "idle"
    /\ UNCHANGED <<brandRules, colorChecker, fontChecker, logoChecker, layers,
                   docBounds, colorData, fontData, logoData, caught, call,
                   mutatorLog, fix, running>>

Next ==
    \/ RunComplianceCheck
    \/ ExtractDocumentColors
    \/ ExtractDocumentFonts
    \/ ValidateLogo
    \/ CheckAllJoin

Spec == Init /\ [][Next]_vars

Categories == {"colors", "fonts", "logo"}
Category(report, c) ==
    IF c = "colors" THEN report.colors
    ELSE IF c = "fonts" THEN report.fonts ELSE report.logo

\* C1: for every report checkAll produces, calculateScore is an integer from 0
\* to 100, and it is 100 when colors, fonts and logo are all compliant.
C1_ScoreBounds ==
    scoreNumber # <<>> =>
        /\ scoreNumber[1] \in 0..100
        /\ (\A c \in Categories : Category(currentComplianceData, c).isCompliant)
              => scoreNumber[1] = 100

\* C1 witness: a document whose three categories are compliant was scored.
C1_Witness ==
    /\ scoreNumber # <<>>
    /\ pc = "idle"
    /\ caught = {}
    /\ Len(layers) > 0
    /\ \A c \in Categories : Category(currentComplianceData, c).isCompliant

\* The colour attributes of a layer in the order the extraction reads them.
AttributeOrder == <<"fill", "stroke", "text">>
AttributeValue(layer, a) ==
    IF a = "fill" THEN layer.fill
    ELSE IF a = "stroke" THEN layer.stroke ELSE layer.textColor

\* Place k of the document's attribute occurrences: layer by layer, and within a
\* layer fill, stroke, text.
OccurrenceLayer(k) == layers[((k - 1) \div 3) + 1]
OccurrenceAttribute(k) == AttributeOrder[((k - 1) % 3) + 1]
OccurrenceOffends(k) ==
    LET layer == OccurrenceLayer(k)
        a == OccurrenceAttribute(k)
    IN  /\ ColorPresent(AttributeValue(layer, a))
        /\ a = "text" => layer.type = "text"
        /\ ~isColorApproved(colorChecker, rgbToHex(AttributeValue(layer, a)))

ExpectedColorViolations ==
    LET offending == SelectSeq([k \in 1..(3 * Len(layers)) |-> k], OccurrenceOffends)
    IN  [n \in 1..Len(offending) |->
            LET layer == OccurrenceLayer(offending[n])
                a == OccurrenceAttribute(offending[n])
                hex == rgbToHex(AttributeValue(layer, a))
            IN  [layerId |-> layer.id,
                 layerName |-> IF layer.name = <<>> THEN UnnamedLayer ELSE layer.name,
                 type |-> a,
                 currentColor |-> hex,
                 closestBrandColor |-> findClosestBrandColor(colorChecker, hex)]]

\* C8: when extractDocumentColors settles from the document, its violation list
\* holds exactly one violation per present, non-approved colour attribute (fill
\* and stroke of every layer, text colour of text layers only), in layer order
\* and within a layer in the order fill, stroke, text, each with the closest
\* brand colour of the offending colour; isCompliant is true iff the list is empty.
C8_OneViolationPerOffendingAttribute ==
    [][ (colorData = Pending /\ colorData' # Pending /\ "colors" \notin caught')
          => /\ colorData'.violations = ExpectedColorViolations
             /\ colorData'.isCompliant = (Len(colorData'.violations) = 0) ]_vars

\* C8 witness: one text layer yielded three violations, for its fill, its stroke
\* and its text colour.
C8_Witness ==
    /\ pc = "checking"
    /\ colorData # Pending
    /\ "colors" \notin caught
    /\ \E i \in 1..Len(layers) :
          /\ layers[i].type = "text"
          /\ \A a \in {"fill", "stroke", "text"} :
                \E n \in 1..Len(colorData.violations) :
                    /\ colorData.violations[n].layerId = layers[i].id
                    /\ colorData.violations[n].type = a

\* The identifier the configuration gives, "logo" when it gives none.
ConfiguredIdentifier ==
    IF brandRules.logo.identifier = <<>> THEN <<"l","o","g","o">>
    ELSE brandRules.logo.identifier[1]

\* A layer name that, compared case-insensitively, contains the identifier or
\* is "logo" or "brand".
IsLogoName(name) ==
    LET lower == toLowerCase(name)
        id == toLowerCase(ConfiguredIdentifier)
    IN  \/ \E i \in 1..Len(lower) : \E j \in i..Len(lower) : SubSeq(lower, i, j) = id
        \/ lower = <<"l","o","g","o">>
        \/ lower = <<"b","r","a","n","d">>

LogoNameMatches == {i \in 1..Len(layers) : IsLogoName(layers[i].name)}
FirstLogoNameMatch == CHOOSE i \in LogoNameMatches : \A j \in LogoNameMatches : i <= j

\* C10: when validateLogo settles from the document, a logo is found iff some
\* layer's name, compared case-insensitively, contains the configured identifier
\* or equals "logo" or "brand"; the one layer evaluated is the first such layer in
\* layer order, and the result depends on no other layer; when no layer matches
\* the logo category of the report is non-compliant with the single sentinel
\* violation (violationCount 1, details 'Logo not found in document'), which no
\* report of a found logo carries.
C10_LogoIdentification ==
    [][ /\ (logoData = Pending /\ logoData' # Pending /\ "logo" \notin caught')
              => /\ logoData'.found = (LogoNameMatches # {})
                 /\ LogoNameMatches # {}
                       => /\ logoData'.logoLayer = FirstLogoNameMatch
                          /\ [logoData' EXCEPT !.logoLayer = 1]
                                = validateLogo(logoChecker, <<layers[FirstLogoNameMatch]>>,
                                               docBounds, TRUE)
                 /\ LogoNameMatches = {}
                       => /\ ~logoData'.isCompliant
                          /\ logoData'.violations
                                = << [text |-> "Logo not found in document"] >>
        /\ (pc = "checking" /\ pc' = "idle" /\ "logo" \notin caught)
              => LET logo == currentComplianceData'.logo
                 IN  IF ~logoData.found
                     THEN /\ ~logo.isCompliant
                          /\ logo.violationCount = 1
                          /\ Len(logo.violations) = 1
                          /\ logo.details = [text |-> "Logo not found in document"]
                     ELSE /\ logo.details.text # "Logo not found in document"
                          /\ logo.violationCount = Len(logoData.violations)
                          /\ logo.isCompliant = (logo.violationCount = 0) ]_vars

\* C10 witness: a document of two layers, neither of them a logo by name, was
\* reported with the sentinel violation.
C10_Witness ==
    /\ pc = "idle"
    /\ currentComplianceData # Null
    /\ "logo" \notin caught
    /\ Len(layers) = 2
    /\ LogoNameMatches = {}
    /\ ~logoData.found
    /\ currentComplianceData.logo.violationCount = 1
    /\ currentComplianceData.logo.details = [text |-> "Logo not found in document"]

\* The distance of a tested colour attribute from the nearest approved colour
\* is zero.
MatchesAnApprovedColor(hex) ==
    /\ hexToRgb(hex) # Null
    /\ \E i \in 1..Len(colorChecker.approvedColors) :
          colorChecker.approvedColors[i].rgb = hexToRgb(hex)

\* C6: a configured threshold of 0 is honoured, not replaced by the default:
\* with colors.tolerance = 0 every tested colour attribute that is not at
\* distance 0 from an approved colour is reported, and with
\* logo.minDistanceFromEdge = 0 a logo in an allowed region that lies within the
\* document, touching an edge or not, raises no position violation.
C6_ZeroThresholdsHonoured ==
    /\ (/\ brandRules.colors.tolerance = <<0>>
        /\ colorData \notin {Null, Pending}
        /\ "colors" \notin caught)
          => \A k \in 1..(3 * Len(layers)) :
                LET layer == OccurrenceLayer(k)
                    a == OccurrenceAttribute(k)
                IN  (/\ ColorPresent(AttributeValue(layer, a))
                     /\ a = "text" => layer.type = "text"
                     /\ ~MatchesAnApprovedColor(rgbToHex(AttributeValue(layer, a))))
                       => \E n \in 1..Len(colorData.violations) :
                             /\ colorData.violations[n].layerId = layer.id
                             /\ colorData.violations[n].type = a
    /\ (/\ brandRules.logo.minDistanceFromEdge = <<0>>
        /\ logoData \notin {Null, Pending}
        /\ "logo" \notin caught
        /\ logoData.found
        /\ IsIn(brandRules.logo.allowedPositions, logoData.position)
        /\ logoData.bounds.x >= 0 /\ logoData.bounds.y >= 0
        /\ logoData.bounds.x + logoData.bounds.width <= DocBoundsOr(docBounds).width
        /\ logoData.bounds.y + logoData.bounds.height <= DocBoundsOr(docBounds).height)
          => \A n \in 1..Len(logoData.violations) :
                logoData.violations[n].text # "Logo position is not allowed"

(***************************************************************************)
(* Score scenarios: documents built to carry a chosen number of colour     *)
(* violations, font violations and logo violations, checked by the add-on. *)
(***************************************************************************)
Red == HexColor(<<"#","F","F","0","0","0","0">>)

\* Three colour violations: fill, stroke and text colour of a text layer in an
\* approved font.
ThreeColorViolations ==
    Layer(<<"T","r","i","o">>, "text", Red, Red, Red, Roboto, PlainBounds)

\* n < 3 colour violations on a shape.
FewColorViolations(n) ==
    Layer(<<"S","h","a","p","e">>, "shape",
          IF n >= 1 THEN Red ELSE NoColor,
          IF n >= 2 THEN Red ELSE NoColor,
          NoColor, <<>>, PlainBounds)

\* One font violation and no colour.
OneFontViolation ==
    Layer(<<"T","e","x","t">>, "text", NoColor, NoColor, NoColor, ComicSans, PlainBounds)

\* A logo layer with n violations under the default rules: none; position;
\* width and height; width, height and position; all four.
LogoWithViolations(n) ==
    Layer(<<"L","o","g","o">>, "shape", NoColor, NoColor, NoColor, <<>>,
          IF n = 0 THEN Bounds(20, 20, 150, 75)
          ELSE IF n = 1 THEN Bounds(0, 0, 150, 75)
          ELSE IF n = 2 THEN Bounds(20, 20, 60, 30)
          ELSE IF n = 3 THEN Bounds(10, 10, 50, 30)
          ELSE Bounds(0, 0, 30, 30))

ScoreDocument(c, f, l) ==
    [i \in 1..(c \div 3) |-> ThreeColorViolations]
    \o (IF c % 3 = 0 THEN <<>> ELSE <<FewColorViolations(c % 3)>>)
    \o [i \in 1..f |-> OneFontViolation]
    \o (IF l < 0 THEN <<>> ELSE <<LogoWithViolations(l)>>)

\* Font violation counts of the scenarios: none, one, and the most.
FontViolationCounts == {0, 1, MaxViolations}

InitScore ==
    \E c \in 0..MaxViolations, f \in FontViolationCounts, l \in -1..4 :
        Constructed(getDefaultBrandRules, ScoreDocument(c, f, l), <<>>)

SpecScore == InitScore /\ [][Next]_vars

\* The deduction of a category with n violations: nothing for none, otherwise
\* 10 points per started pair of violations, at most 30.
ExpectedDeduction(n) ==
    IF n = 0 THEN 0
    ELSE LET pairs == CHOOSE k \in 1..n : 2 * k >= n /\ 2 * (k - 1) < n
         IN  IF 10 * pairs > 30 THEN 30 ELSE 10 * pairs

\* What calculateScore reads of a report with the given violation counts.
ReportWithCounts(colors, fonts, logo) ==
    [colors |-> [isCompliant |-> colors = 0, violationCount |-> colors],
     fonts |-> [isCompliant |-> fonts = 0, violationCount |-> fonts],
     logo |-> [isCompliant |-> logo = 0, violationCount |-> logo]]

ExpectedScore(colors, fonts, logo) ==
    LET rest == 100 - ExpectedDeduction(colors) - ExpectedDeduction(fonts)
                    - ExpectedDeduction(logo)
    IN  IF rest < 0 THEN 0 ELSE rest

ScoreFormulaForAllCounts ==
    \A c \in 0..MaxViolations, f \in 0..MaxViolations, l \in 0..MaxViolations :
        calculateScore(ReportWithCounts(c, f, l)) = ExpectedScore(c, f, l)

\* C2: the score is max(0, 100 - sum of the deductions), a category with at
\* least one violation contributing min(10 * ceil(violationCount / 2), 30) and a
\* category with none contributing 0; one colour violation with compliant fonts
\* and logo gives exactly 90.
C2_ScoreFormula ==
    scoreNumber # <<>> =>
        LET colors == currentComplianceData.colors.violationCount
            fonts == currentComplianceData.fonts.violationCount
            logo == currentComplianceData.logo.violationCount
        IN  /\ scoreNumber[1] = ExpectedScore(colors, fonts, logo)
            /\ (colors = 1 /\ fonts = 0 /\ logo = 0) => scoreNumber[1] = 90
            /\ ScoreFormulaForAllCounts

\* C2 witness: a document with one colour violation, compliant fonts and a
\* compliant logo was scored 90.
C2_Witness ==
    /\ scoreNumber = <<90>>
    /\ pc = "idle"
    /\ caught = {}
    /\ currentComplianceData.colors.violationCount = 1
    /\ currentComplianceData.fonts.isCompliant
    /\ currentComplianceData.logo.isCompliant

\* The report with one category's violation count replaced, and with it that
\* category's flag when flag is given.
WithCount(report, c, n, flag) ==
    LET cat == [Category(report, c) EXCEPT !.violationCount = n,
                                           !.isCompliant = flag]
    IN  IF c = "colors" THEN [report EXCEPT !.colors = cat]
        ELSE IF c = "fonts" THEN [report EXCEPT !.fonts = cat]
        ELSE [report EXCEPT !.logo = cat]

\* C3: raising one category's violation count, the other two categories held
\* fixed, never raises the score; this holds with the category's flag kept as it
\* is and with the flag a report of that many violations carries.
C3_ScoreMonotone ==
    scoreNumber # <<>> =>
        \A c \in Categories :
            \A n \in (Category(currentComplianceData, c).violationCount + 1)
                        ..(MaxViolations + 2) :
                /\ calculateScore(WithCount(currentComplianceData, c, n,
                        Category(currentComplianceData, c).isCompliant))
                      <= scoreNumber[1]
                /\ calculateScore(WithCount(currentComplianceData, c, n, FALSE))
                      <= scoreNumber[1]

\* C3 witness: a scored report one of whose categories, were its count larger,
\* would score strictly less.
C3_Witness ==
    /\ scoreNumber # <<>>
    /\ caught = {}
    /\ \E c \in Categories :
          /\ ~Category(currentComplianceData, c).isCompliant
          /\ \E n \in (Category(currentComplianceData, c).violationCount + 1)
                         ..(MaxViolations + 2) :
                calculateScore(WithCount(currentComplianceData, c, n, FALSE))
                   < scoreNumber[1]

ScoresOfAllCounts ==
    {calculateScore(ReportWithCounts(c, f, l)) :
        c \in 0..MaxViolations, f \in 0..MaxViolations, l \in 0..MaxViolations}

OnlyNonCompliant(c) ==
    /\ ~Category(currentComplianceData, c).isCompliant
    /\ \A d \in Categories \ {c} : Category(currentComplianceData, d).isCompliant

\* C4 as stated: one non-compliant category never brings the score below 70, and
\* some violation counts of the three categories together give the score 0.
C4_ThreeCategoriesReachZero ==
    /\ scoreNumber # <<>> =>
          \A c \in Categories : OnlyNonCompliant(c) => scoreNumber[1] >= 70
    /\ 0 \in ScoresOfAllCounts

\* C4 as amended: one non-compliant category never brings the score below 70,
\* and the three categories together never bring it below 10, the score of three
\* capped deductions; no violation counts give 0.
C4_ThreeCategoriesReachTen ==
    /\ scoreNumber # <<>> =>
          /\ \A c \in Categories : OnlyNonCompliant(c) => scoreNumber[1] >= 70
          /\ scoreNumber[1] >= 10
    /\ 10 \in ScoresOfAllCounts
    /\ \A x \in ScoresOfAllCounts : x >= 10

\* C4 witness: all three categories were reported non-compliant, colours and
\* fonts at the cap and the logo with every violation a logo can have.
C4_Witness ==
    /\ scoreNumber # <<>>
    /\ caught = {}
    /\ currentComplianceData.colors.violationCount >= 5
    /\ currentComplianceData.fonts.violationCount >= 5
    /\ currentComplianceData.logo.violationCount = 4
    /\ scoreNumber[1] = 20

(***************************************************************************)
(* Direct calls of the logo checker on a document of one logo layer.       *)
(***************************************************************************)
\* Origins and sizes of the logo: near and past the edges, in the corners, in the
\* middle row and column, with the centre on a thirds boundary (565 + 150 / 2 =
\* 1920 / 3), degenerate, too small, too narrow, too wide and large.
LogoXs == {10, 20, 565, 1800}
LogoYs == {10, 20, 500, 1000}
LogoSizes ==
    { <<50, 30>>, <<150, 75>>, <<60, 0>>, <<0, 0>>, <<30, 60>>,
      <<150, 120>>, <<400, 100>>, <<1400, 600>> }

LogoBoundsPool ==
    { Bounds(x, y, size[1], size[2]) : x \in LogoXs, y \in LogoYs, size \in LogoSizes }

LogoAt(b) == Layer(<<"l","o","g","o">>, "shape", NoColor, NoColor, NoColor, <<>>, b)

\* The default rules; rules with a lower minimum height, the centre allowed and
\* no configured edge distance; rules with a lower minimum width, one allowed
\* corner and a smaller edge distance.
LogoGeometryRulesPool ==
    { getDefaultBrandRules,
      [getDefaultBrandRules EXCEPT !.logo.minHeight = 30,
                                   !.logo.allowedPositions = <<"center", "top-left">>,
                                   !.logo.minDistanceFromEdge = <<>>],
      [getDefaultBrandRules EXCEPT !.logo.minWidth = 60,
                                   !.logo.allowedPositions = <<"bottom-right">>,
                                   !.logo.minDistanceFromEdge = <<10>>] }

HalfSizeDocument == [width |-> 960, height |-> 540]
DocBoundsPool == { <<>>, <<HalfSizeDocument>> }

InitLogoGeometry ==
    \E rules \in LogoGeometryRulesPool, doc \in DocBoundsPool,
       ls \in {<<>>} \cup { <<LogoAt(b)>> : b \in LogoBoundsPool } :
        Constructed(rules, ls, doc)

ValidateLogoCall ==
    /\ \E providerOk \in BOOLEAN :
          call' = [fn |-> "validateLogo", ok |-> providerOk,
                   ret |-> validateLogo(logoChecker, layers, docBounds, providerOk)]
    /\ UNCHANGED <<brandRules, colorChecker, fontChecker, logoChecker, layers,
                   docBounds, pc, colorData, fontData, logoData,
                   currentComplianceData, scoreNumber, caught, mutatorLog, fix, running>>

\* A call of isPositionAllowed on the bounds of the document's layer.
IsPositionAllowedCall ==
    /\ Len(layers) > 0
    /\ LET b == layers[1].bounds
           doc == DocBoundsOr(docBounds)
       IN  call' = [fn |-> "isPositionAllowed", bounds |-> b, doc |-> doc,
                    ret |-> isPositionAllowed(logoChecker, b, doc.width, doc.height)]
    /\ UNCHANGED <<brandRules, colorChecker, fontChecker, logoChecker, layers,
                   docBounds, pc, colorData, fontData, logoData,
                   currentComplianceData, scoreNumber, caught, mutatorLog, fix, running>>

\* A call of fixLogoViolations: the layers after it, the mutator calls it made
\* and the value it returned.  layerDoc is logoLayer.document?.bounds: the
\* document's bounds, or absent when the layer carries no document.
FixLogoViolationsCall ==
    /\ \E providerOk \in BOOLEAN, layerDoc \in {<<>>, docBounds},
          sizeOk \in BOOLEAN, positionOk \in BOOLEAN :
          \E r \in { fixLogoViolations(logoChecker, layers, docBounds, providerOk,
                                     layerDoc, sizeOk, positionOk) } :
              /\ layers' = r.layers
              /\ mutatorLog' = r.calls
              /\ call' = [fn |-> "fixLogoViolations", ok |-> providerOk,
                          layerDoc |-> layerDoc, before |-> layers,
                          ret |-> r.result]
    /\ UNCHANGED <<brandRules, colorChecker, fontChecker, logoChecker,
                   docBounds, pc, colorData, fontData, logoData,
                   currentComplianceData, scoreNumber, caught, fix, running>>

NextLogoGeometry ==
    \/ ValidateLogoCall
    \/ IsPositionAllowedCall
    \/ FixLogoViolationsCall

SpecLogoGeometry == InitLogoGeometry /\ [][NextLogoGeometry]_vars

\* The document dimensions validateLogo passes to the position check.
CheckedDocument ==
    LET db == DocBoundsOr(docBounds)
    IN  [width |-> IF db.width = 0 THEN 1920 ELSE db.width,
         height |-> IF db.height = 0 THEN 1080 ELSE db.height]

ViolationTexts(violations) == [i \in 1..Len(violations) |-> violations[i].text]

\* C11: for a found logo the violations are, in this order, width iff width <
\* minWidth, height iff height < minHeight, aspect ratio iff width / height (0
\* when the height is 0) is outside [aspectRatio.min, aspectRatio.max], and
\* position iff the position check fails; a zero-height logo is returned with
\* ratio 0 and, the minimum ratio being positive, an aspect-ratio violation.
C11_LogoViolationOrder ==
    (call.fn = "validateLogo" /\ call.ok /\ call.ret.found) =>
        LET rules == brandRules.logo
            b == layers[call.ret.logoLayer].bounds
            num == IF b.height = 0 THEN 0 ELSE b.width
            den == IF b.height = 0 THEN 1 ELSE b.height
            outside == \/ num * rules.aspectRatio.min.den < rules.aspectRatio.min.num * den
                       \/ num * rules.aspectRatio.max.den > rules.aspectRatio.max.num * den
            positionFails ==
                ~isPositionAllowed(logoChecker, b, CheckedDocument.width,
                                   CheckedDocument.height).allowed
        IN  /\ ViolationTexts(call.ret.violations)
                 = (IF b.width < rules.minWidth
                    THEN <<"Logo width is below minimum">> ELSE <<>>)
                   \o (IF b.height < rules.minHeight
                       THEN <<"Logo height is below minimum">> ELSE <<>>)
                   \o (IF outside
                       THEN <<"Logo aspect ratio is outside allowed range">> ELSE <<>>)
                   \o (IF positionFails
                       THEN <<"Logo position is not allowed">> ELSE <<>>)
            /\ b.height = 0 =>
                  /\ call.ret.aspectRatio = Ratio(0, 1)
                  /\ rules.aspectRatio.min.num > 0 =>
                        \E i \in 1..Len(call.ret.violations) :
                            call.ret.violations[i].text
                               = "Logo aspect ratio is outside allowed range"

\* C11 witness: a zero-height logo was validated and all four violations were
\* returned.
C11_Witness ==
    /\ call.fn = "validateLogo"
    /\ call.ok
    /\ call.ret.found
    /\ layers[call.ret.logoLayer].bounds.height = 0
    /\ layers[call.ret.logoLayer].bounds.width > 0
    /\ Len(call.ret.violations) = 4

\* The region of a bounding box: its centre against the thirds of the document,
\* every centre of the middle row or middle column being "center".
RegionOf(b, doc) ==
    LET cx2 == 2 * b.x + b.width
        cy2 == 2 * b.y + b.height
        col == IF 3 * cx2 < 2 * doc.width THEN "left"
               ELSE IF 3 * cx2 > 4 * doc.width THEN "right" ELSE "middle"
        row == IF 3 * cy2 < 2 * doc.height THEN "top"
               ELSE IF 3 * cy2 > 4 * doc.height THEN "bottom" ELSE "middle"
    IN  IF row = "middle" \/ col = "middle" THEN "center"
        ELSE IF row = "top" /\ col = "left" THEN "top-left"
        ELSE IF row = "top" /\ col = "right" THEN "top-right"
        ELSE IF row = "bottom" /\ col = "left" THEN "bottom-left"
        ELSE "bottom-right"

\* C12: the position check classifies the centre of the bounding box into one of
\* the four corners or center, the middle row and middle column being center
\* (1920x1080 with bounds 10,10,50,30 is top-left); with a positive configured
\* minDistanceFromEdge the position is disallowed iff the region is not allowed
\* or one of the four edge distances is below minDistanceFromEdge.
C12_PositionCheck ==
    call.fn = "isPositionAllowed" =>
        LET b == call.bounds
            doc == call.doc
            rules == brandRules.logo
            region == RegionOf(b, doc)
        IN  /\ call.ret.position = region
            /\ (doc = DefaultDocBounds /\ b = Bounds(10, 10, 50, 30))
                  => call.ret.position = "top-left"
            /\ (rules.minDistanceFromEdge # <<>> /\ rules.minDistanceFromEdge[1] > 0) =>
                  LET d == rules.minDistanceFromEdge[1]
                  IN  call.ret.allowed
                         = ~(\/ \A i \in 1..Len(rules.allowedPositions) :
                                    rules.allowedPositions[i] # region
                             \/ b.x < d
                             \/ doc.width - (b.x + b.width) < d
                             \/ b.y < d
                             \/ doc.height - (b.y + b.height) < d)

\* C12 witness: a bounding box in an allowed corner was disallowed for being too
\* close to the right or bottom edge only.
C12_Witness ==
    /\ call.fn = "isPositionAllowed"
    /\ brandRules.logo.minDistanceFromEdge # <<>>
    /\ brandRules.logo.minDistanceFromEdge[1] > 0
    /\ ~call.ret.allowed
    /\ call.ret.reason = "Too close to edge"
    /\ call.bounds.x >= brandRules.logo.minDistanceFromEdge[1]
    /\ call.bounds.y >= brandRules.logo.minDistanceFromEdge[1]

\* fixLogoViolations was called on a document it could read and whose logo was
\* found and not compliant, so that the three stages ran.
LogoFixRan ==
    /\ call.fn = "fixLogoViolations"
    /\ call.ok
    /\ LET validation == validateLogo(logoChecker, call.before, docBounds, TRUE)
       IN  validation.found /\ ~validation.isCompliant

\* The logo's bounds before the fix, and its dimensions after the size stage.
BoundsBeforeFix == call.before[findLogoLayer(logoChecker, call.before)].bounds
WidthAfterMinimum ==
    IF BoundsBeforeFix.width < brandRules.logo.minWidth
    THEN brandRules.logo.minWidth ELSE BoundsBeforeFix.width
HeightAfterMinimum ==
    IF BoundsBeforeFix.height < brandRules.logo.minHeight
    THEN brandRules.logo.minHeight ELSE BoundsBeforeFix.height

\* The ratio recomputed after the size stage against the two limits.
RatioTooLow ==
    IF HeightAfterMinimum = 0 THEN 0 < brandRules.logo.aspectRatio.min.num
    ELSE WidthAfterMinimum * brandRules.logo.aspectRatio.min.den
            < brandRules.logo.aspectRatio.min.num * HeightAfterMinimum
RatioTooHigh ==
    /\ ~RatioTooLow
    /\ HeightAfterMinimum # 0
    /\ WidthAfterMinimum * brandRules.logo.aspectRatio.max.den
          > brandRules.logo.aspectRatio.max.num * HeightAfterMinimum

\* C13 as stated: remediation never shrinks a dimension; a ratio below the
\* minimum is corrected by a height not lower than before with width / height =
\* aspectRatio.min, a ratio above the maximum by a width not lower than before
\* with width / height = aspectRatio.max.
C13_NeverShrinks ==
    (LogoFixRan /\ Len(mutatorLog) > 0) =>
        LET final == mutatorLog[1].bounds
            min == brandRules.logo.aspectRatio.min
            max == brandRules.logo.aspectRatio.max
        IN  /\ final.width >= BoundsBeforeFix.width
            /\ final.height >= BoundsBeforeFix.height
            /\ RatioTooLow => /\ final.height >= HeightAfterMinimum
                              /\ final.width * min.den = min.num * final.height
            /\ RatioTooHigh => /\ final.width >= WidthAfterMinimum
                               /\ final.width * max.den = max.num * final.height

\* C13 as amended: each dimension below its minimum is raised to the minimum;
\* then, with the ratio recomputed, a ratio below aspectRatio.min sets the height
\* to width / aspectRatio.min and otherwise a ratio above aspectRatio.max sets
\* the width to height * aspectRatio.max, so that width / height equals the
\* limit.  The aspect-ratio step lowers the dimension it changes (a positive
\* height, or the width); in any other case the size stage's dimensions stand.
C13_AspectStageLowers ==
    (LogoFixRan /\ Len(mutatorLog) > 0) =>
        LET final == mutatorLog[1].bounds
            min == brandRules.logo.aspectRatio.min
            max == brandRules.logo.aspectRatio.max
        IN  /\ RatioTooLow =>
                  /\ final.width = WidthAfterMinimum
                  /\ final.width * min.den = min.num * final.height
                  /\ HeightAfterMinimum > 0 => final.height < HeightAfterMinimum
            /\ RatioTooHigh =>
                  /\ final.height = HeightAfterMinimum
                  /\ final.width * max.den = max.num * final.height
                  /\ final.width < WidthAfterMinimum
            /\ (~RatioTooLow /\ ~RatioTooHigh) =>
                  /\ final.width = WidthAfterMinimum
                  /\ final.height = HeightAfterMinimum
                  /\ final.width >= BoundsBeforeFix.width
                  /\ final.height >= BoundsBeforeFix.height

\* C13 witness: the width was raised to the minimum by the size stage and then
\* lowered below the minimum by the aspect-ratio stage, and the size was applied.
C13_Witness ==
    /\ LogoFixRan
    /\ Len(mutatorLog) > 0
    /\ mutatorLog[1].ok
    /\ BoundsBeforeFix.width < brandRules.logo.minWidth
    /\ RatioTooHigh
    /\ mutatorLog[1].bounds.width < brandRules.logo.minWidth

\* The dimensions after the aspect-ratio stage, from the dimensions after the
\* size stage: the height with width / height = aspectRatio.min, or the width
\* with width / height = aspectRatio.max.
ExpectedFixedSize ==
    LET min == brandRules.logo.aspectRatio.min
        max == brandRules.logo.aspectRatio.max
    IN  IF RatioTooLow
        THEN [width |-> WidthAfterMinimum,
              height |-> (WidthAfterMinimum * min.den) \div min.num]
        ELSE IF RatioTooHigh
        THEN [width |-> (HeightAfterMinimum * max.num) \div max.den,
              height |-> HeightAfterMinimum]
        ELSE [width |-> WidthAfterMinimum, height |-> HeightAfterMinimum]

\* The edge distance in force: the configured one, 20 when none is configured.
EdgeDistanceInForce ==
    IF brandRules.logo.minDistanceFromEdge = <<>> THEN 20
    ELSE brandRules.logo.minDistanceFromEdge[1]

\* The stages of a logo fix as the mutator saw them: a size call iff the size or
\* aspect stage found something to correct, carrying the corrected size at the original
\* origin; a position call iff the original origin with the corrected size is
\* disallowed, carrying the corrected size at (distance, distance); the size call
\* first; and the layer left with the bounds of the last call that resolved.
LogoFixPipeline ==
    LET before == BoundsBeforeFix
        size == ExpectedFixedSize
        logoLayer == findLogoLayer(logoChecker, call.before)
        sized == [x |-> before.x, y |-> before.y,
                  width |-> size.width, height |-> size.height]
        moved == [x |-> EdgeDistanceInForce, y |-> EdgeDistanceInForce,
                  width |-> size.width, height |-> size.height]
        resize == \/ before.width < brandRules.logo.minWidth
                  \/ before.height < brandRules.logo.minHeight
                  \/ RatioTooLow
                  \/ RatioTooHigh
        layerDoc == DocBoundsOr(call.layerDoc)
        move == ~isPositionAllowed(logoChecker, sized, layerDoc.width,
                                   layerDoc.height).allowed
    IN  /\ Len(mutatorLog) = (IF resize THEN 1 ELSE 0) + (IF move THEN 1 ELSE 0)
        /\ \A i \in 1..Len(mutatorLog) :
              /\ mutatorLog[i].op = "setBounds"
              /\ mutatorLog[i].layerId = call.before[logoLayer].id
        /\ resize => mutatorLog[1].bounds = sized
        /\ move => mutatorLog[Len(mutatorLog)].bounds = moved
        /\ layers[logoLayer].bounds
              = IF move /\ mutatorLog[Len(mutatorLog)].ok THEN moved
                ELSE IF resize /\ mutatorLog[1].ok THEN sized
                ELSE before

\* bounds 50x30 under aspect ratio 1.5 to 3.0 and minWidth 100.
IsSpecExample ==
    /\ brandRules.logo.aspectRatio = [min |-> Ratio(3, 2), max |-> Ratio(3, 1)]
    /\ brandRules.logo.minWidth = 100
    /\ BoundsBeforeFix.width = 50
    /\ BoundsBeforeFix.height = 30

NoResults == [colors |-> Null, fonts |-> Null, logo |-> Null, totalFixed |-> 0]

\* A fix button is used once a check has produced a report; the handlers are
\* taken one at a time, a click arriving while another handler runs being
\* taken after it.
CanStartFix ==
    /\ pc = "idle"
    /\ scoreNumber # <<>>
    /\ fix.stage \in {"none", "done"}

\* The handler entered, before its first fix method.
StartedFix(handler, stage) ==
    [handler |-> handler, stage |-> stage, results |-> NoResults, unreadable |-> {}]

\* handleFixColors up to its call of fixColorViolations.
HandleFixColors ==
    /\ CanStartFix
    /\ fix' = StartedFix("handleFixColors", "colors")
    /\ mutatorLog' = <<>>
    /\ UNCHANGED <<brandRules, colorChecker, fontChecker, logoChecker, layers,
                   docBounds, pc, colorData, fontData, logoData,
                   currentComplianceData, scoreNumber, caught, call, running>>

\* handleFixFonts up to its call of fixFontViolations.
HandleFixFonts ==
    /\ CanStartFix
    /\ fix' = StartedFix("handleFixFonts", "fonts")
    /\ mutatorLog' = <<>>
    /\ UNCHANGED <<brandRules, colorChecker, fontChecker, logoChecker, layers,
                   docBounds, pc, colorData, fontData, logoData,
                   currentComplianceData, scoreNumber, caught, call, running>>

\* handleFixLogo up to its call of fixLogoViolations.
HandleFixLogo ==
    /\ CanStartFix
    /\ fix' = StartedFix("handleFixLogo", "logo")
    /\ mutatorLog' = <<>>
    /\ UNCHANGED <<brandRules, colorChecker, fontChecker, logoChecker, layers,
                   docBounds, pc, colorData, fontData, logoData,
                   currentComplianceData, scoreNumber, caught, call, running>>

\* handleFixAll up to fixAll's call of fixColorViolations.
HandleFixAll ==
    /\ CanStartFix
    /\ fix' = StartedFix("handleFixAll", "colors")
    /\ mutatorLog' = <<>>
    /\ UNCHANGED <<brandRules, colorChecker, fontChecker, logoChecker, layers,
                   docBounds, pc, colorData, fontData, logoData,
                   currentComplianceData, scoreNumber, caught, call, running>>

\* The stage after a fix method returned: fixAll goes on to the next category,
\* a single fix to the recheck.
StageAfter(stage) ==
    IF fix.handler = "handleFixAll" /\ stage = "colors" THEN "fonts"
    ELSE IF fix.handler = "handleFixAll" /\ stage = "fonts" THEN "logo"
    ELSE "recheck"

\* colorChecker.fixColorViolations(), from a handler or from fixAll.
FixColorViolations ==
    /\ fix.stage = "colors"
    /\ \E providerOk \in BOOLEAN, providerAgainOk \in BOOLEAN,
          failed \in SUBSET (1..Len(extractDocumentColors(colorChecker, layers,
                                                          TRUE).violations)) :
          \E r \in { fixColorViolations(colorChecker, layers, providerOk,
                                      providerAgainOk, failed) } :
              /\ layers' = r.layers
              /\ mutatorLog' = mutatorLog \o r.calls
              /\ fix' = [fix EXCEPT !.stage = StageAfter("colors"),
                                    !.results.colors = r.result,
                                    !.unreadable =
                                        IF providerOk /\ providerAgainOk THEN @
                                        ELSE @ \cup {"colors"},
                                    !.results.totalFixed = @ + r.result.fixed]
    /\ UNCHANGED <<brandRules, colorChecker, fontChecker, logoChecker,
                   docBounds, pc, colorData, fontData, logoData,
                   currentComplianceData, scoreNumber, caught, call, running>>

\* fontChecker.fixFontViolations(), from a handler or from fixAll.
FixFontViolations ==
    /\ fix.stage = "fonts"
    /\ \E providerOk \in BOOLEAN, providerAgainOk \in BOOLEAN,
          failed \in SUBSET (1..Len(extractDocumentFonts(fontChecker, layers,
                                                         TRUE).violations)) :
          \E r \in { fixFontViolations(fontChecker, layers, providerOk,
                                     providerAgainOk, failed) } :
              /\ layers' = r.layers
              /\ mutatorLog' = mutatorLog \o r.calls
              /\ fix' = [fix EXCEPT !.stage = StageAfter("fonts"),
                                    !.results.fonts = r.result,
                                    !.unreadable =
                                        IF providerOk /\ providerAgainOk THEN @
                                        ELSE @ \cup {"fonts"},
                                    !.results.totalFixed = @ + r.result.fixed]
    /\ UNCHANGED <<brandRules, colorChecker, fontChecker, logoChecker,
                   docBounds, pc, colorData, fontData, logoData,
                   currentComplianceData, scoreNumber, caught, call, running>>

\* logoChecker.fixLogoViolations(), from a handler or from fixAll.
FixLogoViolations ==
    /\ fix.stage = "logo"
    /\ \E providerOk \in BOOLEAN, layerDoc \in {<<>>, docBounds},
          sizeOk \in BOOLEAN, positionOk \in BOOLEAN :
          \E r \in { fixLogoViolations(logoChecker, layers, docBounds, providerOk,
                                     layerDoc, sizeOk, positionOk) } :
              /\ layers' = r.layers
              /\ mutatorLog' = mutatorLog \o r.calls
              /\ fix' = [fix EXCEPT !.stage = StageAfter("logo"),
                                    !.results.logo = r.result,
                                    !.unreadable =
                                        IF providerOk THEN @ ELSE @ \cup {"logo"},
                                    !.results.totalFixed = @ + r.result.fixed]
    /\ UNCHANGED <<brandRules, colorChecker, fontChecker, logoChecker,
                   docBounds, pc, colorData, fontData, logoData,
                   currentComplianceData, scoreNumber, caught, call, running>>

\* Documents to fix: a text layer with unapproved colours and font above a small
\* logo near the corner; a logo too large for any corner; a compliant logo; a
\* document with no logo; a malformed colour beside a compliant logo.
TitleToFix ==
    Layer(<<"T","i","t","l","e">>, "text", Red, NoColor, RgbColor(1, 200, 3),
          ComicSans, PlainBounds)
SmallLogo == LogoAt(Bounds(10, 10, 50, 30))
LargeLogo == LogoAt(Bounds(260, 240, 1400, 600))
CompliantLogo ==
    Layer(<<"b","r","a","n","d">>, "shape",
          HexColor(<<"#","0","0","6","6","C","C">>), NoColor, NoColor, <<>>,
          Bounds(20, 20, 150, 75))
MalformedFill ==
    Layer(<<"B","o","x">>, "shape", HexColor(<<"#","1","2","3","4","5">>),
          NoColor, NoColor, <<>>, PlainBounds)

FixDocuments ==
    { <<TitleToFix, SmallLogo>>, <<LargeLogo>>, <<CompliantLogo>>, <<TitleToFix>>,
      <<MalformedFill, CompliantLogo>> }

\* The default rules with a lower minimum height.
LowerMinHeightRules == [getDefaultBrandRules EXCEPT !.logo.minHeight = 30]

\* Each document under the default rules, and the small logo under the rules
\* with the lower minimum height.
InitFix ==
    \/ \E ls \in FixDocuments : Constructed(getDefaultBrandRules, ls, <<>>)
    \/ Constructed(LowerMinHeightRules, <<SmallLogo>>, <<>>)

NextFix ==
    \/ RunComplianceCheck
    \/ ExtractDocumentColors
    \/ ExtractDocumentFonts
    \/ ValidateLogo
    \/ CheckAllJoin
    \/ HandleFixColors
    \/ HandleFixFonts
    \/ HandleFixLogo
    \/ HandleFixAll
    \/ FixColorViolations
    \/ FixFontViolations
    \/ FixLogoViolations

SpecFix == InitFix /\ [][NextFix]_vars

\* Fix All has returned and the recheck it awaits has completed.
FixAllRechecked ==
    /\ fix.handler = "handleFixAll"
    /\ fix.stage = "done"
    /\ pc = "idle"

\* Every colour present in the document is an RGB value or a well-formed hex.
WellFormedColors ==
    \A i \in 1..Len(layers) :
        \A c \in {layers[i].fill, layers[i].stroke, layers[i].textColor} :
            c.kind = "hex" => (c.s = <<>> \/ WellFormedHex(c.s))

\* The invariants of the rule configuration.
RulesInvariants ==
    /\ ~RatioLess(brandRules.logo.aspectRatio.max, brandRules.logo.aspectRatio.min)
    /\ brandRules.logo.minWidth >= 0
    /\ brandRules.logo.minHeight >= 0
    /\ brandRules.logo.minDistanceFromEdge # <<>> =>
          brandRules.logo.minDistanceFromEdge[1] >= 0
    /\ Len(brandRules.colors.approved) >= 1
    /\ Len(brandRules.fonts.approved) >= 1

\* C15: for rules satisfying the invariants and a document with a logo layer and
\* only well-formed colours, once Fix All has run with every mutator call
\* resolving, the check that follows reports the three categories compliant and
\* the score is 100.
C15_FixThenRecheckCompliant ==
    ( /\ FixAllRechecked
      /\ fix.unreadable = {}
      /\ \A i \in 1..Len(mutatorLog) : mutatorLog[i].ok
      /\ RulesInvariants
      /\ findLogoLayer(logoChecker, layers) # 0
      /\ WellFormedColors )
    => /\ \A c \in Categories : Category(currentComplianceData, c).isCompliant
       /\ scoreNumber = <<100>>

\* The mutator calls issued by the step.
NewCalls == SubSeq(mutatorLog', Len(mutatorLog) + 1, Len(mutatorLog'))

\* The calls with their outcomes disregarded.
Attempts(calls) == [i \in 1..Len(calls) |-> [calls[i] EXCEPT !.ok = TRUE]]

\* The layers after the resolved calls of a sequence took effect, one by one.
RECURSIVE ApplyCalls(_, _, _)
ApplyCalls(ls, calls, i) ==
    IF i > Len(calls) THEN ls
    ELSE LET c == calls[i]
             at == findLayerById(ls, c.layerId, 1)
             after ==
                 IF ~c.ok \/ at = 0 THEN ls
                 ELSE IF c.op = "setFillColor"
                 THEN [ls EXCEPT ![at].fill = RgbColor(c.color.r, c.color.g, c.color.b)]
                 ELSE IF c.op = "setStrokeColor"
                 THEN [ls EXCEPT ![at].stroke = RgbColor(c.color.r, c.color.g, c.color.b)]
                 ELSE IF c.op = "setTextColor"
                 THEN [ls EXCEPT ![at].textColor = RgbColor(c.color.r, c.color.g, c.color.b)]
                 ELSE IF c.op = "setFontFamily"
                 THEN [ls EXCEPT ![at].fontFamily = c.fontFamily]
                 ELSE [ls EXCEPT ![at].bounds = c.bounds]
         IN  ApplyCalls(after, calls, i + 1)

\* One colour mutator call per reported colour violation that has a closest
\* brand colour, in the order of the violations.
ColorAttempts ==
    LET vs == extractDocumentColors(colorChecker, layers, TRUE).violations
        fixable == SelectSeq(vs, LAMBDA v : v.closestBrandColor # Null)
    IN  [i \in 1..Len(fixable) |->
            [op |-> IF fixable[i].type = "fill" THEN "setFillColor"
                    ELSE IF fixable[i].type = "stroke" THEN "setStrokeColor"
                    ELSE "setTextColor",
             layerId |-> fixable[i].layerId,
             color |-> fixable[i].closestBrandColor.rgb,
             ok |-> TRUE]]

\* One setFontFamily call per reported font violation.
FontAttempts ==
    LET vs == extractDocumentFonts(fontChecker, layers, TRUE).violations
    IN  [i \in 1..Len(vs) |->
            [op |-> "setFontFamily", layerId |-> vs[i].layerId,
             fontFamily |-> fontChecker.defaultFont.name, ok |-> TRUE]]

\* The setBounds calls of a logo fix in which every call resolves.
LogoAttempts ==
    { fixLogoViolations(logoChecker, layers, docBounds, TRUE, layerDoc,
                        TRUE, TRUE).calls : layerDoc \in {<<>>, docBounds} }

\* A fix method of the category returns in this step, the document having been
\* readable.
FixReturns(category) ==
    /\ fix.stage = category
    /\ fix'.stage # category
    /\ category \notin fix'.unreadable

\* C16: a rejected mutator call does not stop the fix: each fix method still
\* makes the call of every remaining violation of its category, the layers are
\* left with exactly the effects of the calls that resolved, fixAll goes on to
\* the next category, and fixAll ends with a result for colors, fonts and logo
\* and a total that is their sum.
C16_MutationFailuresIsolated ==
    [][ /\ FixReturns("colors") =>
              /\ Attempts(NewCalls) = ColorAttempts
              /\ layers' = ApplyCalls(layers, NewCalls, 1)
        /\ FixReturns("fonts") =>
              /\ Attempts(NewCalls) = FontAttempts
              /\ layers' = ApplyCalls(layers, NewCalls, 1)
        /\ FixReturns("logo") =>
              /\ Attempts(NewCalls) \in LogoAttempts
              /\ layers' = ApplyCalls(layers, NewCalls, 1)
        /\ (fix.stage \in Categories /\ fix'.stage # fix.stage) =>
              /\ SubSeq(mutatorLog', 1, Len(mutatorLog)) = mutatorLog
              /\ Category(fix'.results, fix.stage) # Null
              /\ fix.handler = "handleFixAll" =>
                    fix'.stage = (CASE fix.stage = "colors" -> "fonts"
                                    [] fix.stage = "fonts" -> "logo"
                                    [] fix.stage = "logo" -> "recheck")
        /\ (fix'.handler = "handleFixAll" /\ fix'.stage = "recheck") =>
              /\ \A c \in Categories : Category(fix'.results, c) # Null
              /\ fix'.results.totalFixed =
                    fix'.results.colors.fixed + fix'.results.fonts.fixed
                    + fix'.results.logo.fixed
      ]_vars

\* Fix All returned although the first colour call and the first setBounds call
\* were rejected: the second colour call, the font call and the second
\* setBounds call were made and took effect.
C16_Witness ==
    /\ fix.handler = "handleFixAll"
    /\ fix.stage = "recheck"
    /\ Len(mutatorLog) = 5
    /\ mutatorLog[1].op = "setFillColor" /\ ~mutatorLog[1].ok
    /\ mutatorLog[2].op = "setTextColor" /\ mutatorLog[2].ok
    /\ mutatorLog[3].op = "setFontFamily" /\ mutatorLog[3].ok
    /\ mutatorLog[4].op = "setBounds" /\ ~mutatorLog[4].ok
    /\ mutatorLog[5].op = "setBounds" /\ mutatorLog[5].ok
    /\ layers[1].fill = Red
    /\ layers[1].textColor # RgbColor(1, 200, 3)
    /\ layers[2].bounds = mutatorLog[5].bounds
    /\ fix.results.totalFixed = 3

\* The elements of a sequence.
Elements(seq) == { seq[i] : i \in 1..Len(seq) }

\* Every violation of a settled evaluation is one derived from the document.
DerivedFromDocument(data, fromDocument) ==
    data \notin {Null, Pending} => Elements(data.violations) \subseteq Elements(fromDocument.violations)

\* C17: a provider failure during an evaluation is not caught by the checkers,
\* and no evaluation reports a violation that was not derived from the
\* document.
C17_ProviderFailureNotCaught ==
    /\ caught = {}
    /\ DerivedFromDocument(colorData,
                           extractDocumentColors(colorChecker, layers, TRUE))
    /\ DerivedFromDocument(fontData,
                           extractDocumentFonts(fontChecker, layers, TRUE))
    /\ DerivedFromDocument(logoData,
                           validateLogo(logoChecker, layers, docBounds, TRUE))

\* C18: in every report of checkAll, each category is compliant exactly when
\* its violation count is 0, and the count is the length of its violations
\* list; on every path, the logo not being found and a rejected document access
\* included.
C18_CompliantIffNoViolations ==
    currentComplianceData # Null =>
        \A c \in Categories :
            LET category == Category(currentComplianceData, c)
            IN  /\ category.isCompliant <=> category.violationCount = 0
                /\ category.violationCount = Len(category.violations)

\* A report whose logo was not found and whose colours come from the catch
\* block of extractDocumentColors, the fonts being compliant.
C18_Witness ==
    /\ pc = "idle"
    /\ currentComplianceData # Null
    /\ caught = {"colors"}
    /\ currentComplianceData.logo.details = [text |-> "Logo not found in document"]
    /\ currentComplianceData.logo.violationCount = 1
    /\ currentComplianceData.colors.violationCount = 1
    /\ currentComplianceData.fonts.isCompliant

\* The three evaluations of the run.
Evaluations == <<colorData, fontData, logoData>>

\* C19: a check run starts its three evaluations together, a settled result
\* is kept while the others settle in any order, and the report and the score
\* change only in the step that ends the run, which is taken when all three
\* have settled and computes them from the three results of that run.
C19_AggregationIsJoin ==
    [][ /\ (pc = "idle" /\ pc' = "checking") =>
              \A i \in 1..3 : Evaluations'[i] = Pending
        /\ (pc' = "checking" /\ pc = "checking") =>
              \A i \in 1..3 : Evaluations[i] # Pending => Evaluations'[i] = Evaluations[i]
        /\ (currentComplianceData' # currentComplianceData \/ scoreNumber' # scoreNumber) =>
              (pc = "checking" /\ pc' = "idle")
        /\ (pc = "checking" /\ pc' = "idle") =>
              /\ \A i \in 1..3 : Evaluations[i] \notin {Null, Pending}
              /\ Evaluations' = Evaluations
              /\ \A c \in Categories :
                    LET data == Evaluations[CASE c = "colors" -> 1
                                              [] c = "fonts" -> 2
                                              [] c = "logo" -> 3]
                        category == Category(currentComplianceData', c)
                    IN  /\ category.violations = data.violations
                        /\ category.isCompliant = data.isCompliant
              /\ scoreNumber' = <<calculateScore(currentComplianceData')>>
      ]_vars

\* A run after a completed one: its logo evaluation has settled first, its
\* colour and font evaluations are still pending.
C19_Witness ==
    /\ pc = "checking"
    /\ currentComplianceData # Null
    /\ logoData \notin {Null, Pending}
    /\ colorData = Pending
    /\ fontData = Pending
    /\ Len(layers) > 0

\* The last report found every category compliant.
AlreadyCompliant ==
    /\ currentComplianceData # Null
    /\ \A c \in Categories : Category(currentComplianceData, c).isCompliant

\* C20: no step of a check run calls a layer mutator or changes a layer, the
\* rule configuration or a checker, and a run on the readable document whose
\* last report was compliant again ends with no violation and a score of 100.
C20_EvaluationReadOnly ==
    [][ /\ (pc = "checking" \/ pc' = "checking") =>
              /\ layers' = layers
              /\ mutatorLog' = mutatorLog
              /\ brandRules' = brandRules
              /\ <<colorChecker, fontChecker, logoChecker>>' =
                    <<colorChecker, fontChecker, logoChecker>>
        /\ (pc = "checking" /\ pc' = "idle" /\ caught = {} /\ AlreadyCompliant) =>
              /\ \A c \in Categories :
                    /\ Category(currentComplianceData', c).violations = <<>>
                    /\ Category(currentComplianceData', c).violationCount = 0
              /\ scoreNumber' = <<100>>
      ]_vars

\* The compliant document is being evaluated once more after a Fix All and its
\* recheck: the three evaluations have settled compliant, the score is 100.
C20_Witness ==
    /\ pc = "checking"
    /\ fix.stage = "done"
    /\ AlreadyCompliant
    /\ scoreNumber = <<100>>
    /\ caught = {}
    /\ Len(layers) > 0
    /\ \A i \in 1..3 : /\ Evaluations[i] \notin {Null, Pending}
                       /\ Evaluations[i].isCompliant

\* The number of calls of a sequence that resolved.
ResolvedCalls(calls) == Cardinality({ i \in 1..Len(calls) : calls[i].ok })

\* C21: the fixed value a fix method returns is the number of mutator calls it
\* made that resolved, also when a document access of the method was rejected,
\* and the totalFixed of fixAll is the sum of the three fixed values.
C21_FixedCountsTruthful ==
    [][ /\ (fix.stage \in Categories /\ fix'.stage # fix.stage) =>
              Category(fix'.results, fix.stage).fixed = ResolvedCalls(NewCalls)
        /\ (fix'.handler = "handleFixAll" /\ fix'.stage = "recheck") =>
              fix'.results.totalFixed =
                  fix'.results.colors.fixed + fix'.results.fonts.fixed
                  + fix'.results.logo.fixed
      ]_vars

(***************************************************************************)
(* Overlapping fix handlers.  setButtonLoading disables only the button    *)
(* that was clicked, so another fix button can be clicked while a handler  *)
(* awaits; each handler then runs its own fix methods and its own          *)
(* runComplianceCheck, whose checkAll holds its three results locally.     *)
(* The host settles the pending calls of different handlers in any order.  *)
(* A fix method is taken in one step, an evaluation in one step; the step  *)
(* settling the last evaluation of a check continues, without yielding,    *)
(* through Promise.all, calculateScore and updateScoreDisplay.  The        *)
(* provider and the mutators resolve.                                      *)
(***************************************************************************)
\* The report and score of a check that reads the layers ls.
ReportOf(ls) ==
    checkAllReport(extractDocumentColors(colorChecker, ls, TRUE),
                   extractDocumentFonts(fontChecker, ls, TRUE),
                   validateLogo(logoChecker, ls, docBounds, TRUE))

\* The add-on after init: constructed, listeners set up, the initial check done.
InitConcurrentFix ==
    /\ brandRules = getDefaultBrandRules
    /\ colorChecker = ColorCheckerNew(getDefaultBrandRules)
    /\ fontChecker = FontCheckerNew(getDefaultBrandRules)
    /\ logoChecker = LogoCheckerNew(getDefaultBrandRules)
    /\ layers = WithIds(<<TitleToFix, SmallLogo>>)
    /\ docBounds = <<>>
    /\ pc = "idle"
    /\ colorData = extractDocumentColors(colorChecker, layers, TRUE)
    /\ fontData = extractDocumentFonts(fontChecker, layers, TRUE)
    /\ logoData = validateLogo(logoChecker, layers, docBounds, TRUE)
    /\ currentComplianceData = ReportOf(layers)
    /\ scoreNumber = <<calculateScore(currentComplianceData)>>
    /\ caught = {}
    /\ call = [fn |-> "none"]
    /\ mutatorLog = <<>>
    /\ fix = NoFix
    /\ running = [h \in Handlers |-> IdleHandler]

\* Clicks on fix buttons in a session, each on a different button.
MaxClicks == 2

\* The first fix method of a handler.
FirstStage(h) ==
    IF h = "handleFixFonts" THEN "fonts"
    ELSE IF h = "handleFixLogo" THEN "logo"
    ELSE "colors"

\* The handler after a fix method returned: fixAll goes on to its next fix
\* method, otherwise runComplianceCheck is called and checkAll starts the three
\* evaluations.
AfterFixMethod(h, stage) ==
    IF h = "handleFixAll" /\ stage = "colors"
    THEN [running[h] EXCEPT !.stage = "fonts"]
    ELSE IF h = "handleFixAll" /\ stage = "fonts"
    THEN [running[h] EXCEPT !.stage = "logo"]
    ELSE [running[h] EXCEPT !.stage = "checking", !.colorData = Pending,
                            !.fontData = Pending, !.logoData = Pending]

\* A click on a fix button that has not been used yet.
Click(h) ==
    /\ running[h].stage = "idle"
    /\ Cardinality({ g \in Handlers : running[g].stage # "idle" }) < MaxClicks
    /\ running' = [running EXCEPT ![h] = [IdleHandler EXCEPT !.stage = FirstStage(h)]]
    /\ UNCHANGED <<brandRules, colorChecker, fontChecker, logoChecker, layers,
                   docBounds, pc, colorData, fontData, logoData,
                   currentComplianceData, scoreNumber, caught, call, mutatorLog,
                   fix>>

\* A fix method of handler h returns r.
FixMethodReturns(h, stage, r) ==
    /\ layers' = r.layers
    /\ mutatorLog' = mutatorLog \o r.calls
    /\ running' = [running EXCEPT ![h] = AfterFixMethod(h, stage)]
    /\ UNCHANGED <<brandRules, colorChecker, fontChecker, logoChecker,
                   docBounds, pc, colorData, fontData, logoData,
                   currentComplianceData, scoreNumber, caught, call, fix>>

FixColorsOf(h) ==
    /\ running[h].stage = "colors"
    /\ \E r \in { fixColorViolations(colorChecker, layers, TRUE, TRUE, {}) } :
          FixMethodReturns(h, "colors", r)

FixFontsOf(h) ==
    /\ running[h].stage = "fonts"
    /\ \E r \in { fixFontViolations(fontChecker, layers, TRUE, TRUE, {}) } :
          FixMethodReturns(h, "fonts", r)

FixLogoOf(h) ==
    /\ running[h].stage = "logo"
    /\ \E r \in { fixLogoViolations(logoChecker, layers, docBounds, TRUE, <<>>,
                                    TRUE, TRUE) } :
          FixMethodReturns(h, "logo", r)

\* An evaluation of handler h's check settled, leaving the handler's results
\* as in rec.  When it was the last of the three, checkAll returns and
\* runComplianceCheck stores the report and displays the score.
EvaluationSettles(h, rec) ==
    /\ IF Pending \in {rec.colorData, rec.fontData, rec.logoData}
       THEN /\ running' = [running EXCEPT ![h] = rec]
            /\ UNCHANGED <<currentComplianceData, scoreNumber>>
       ELSE /\ running' = [running EXCEPT ![h] = [IdleHandler EXCEPT
                                                   !.stage = "finished"]]
            /\ currentComplianceData' =
                  checkAllReport(rec.colorData, rec.fontData, rec.logoData)
            /\ scoreNumber' = <<calculateScore(currentComplianceData')>>
    /\ UNCHANGED <<brandRules, colorChecker, fontChecker, logoChecker, layers,
                   docBounds, pc, colorData, fontData, logoData, caught, call,
                   mutatorLog, fix>>

ExtractDocumentColorsOf(h) ==
    /\ running[h].stage = "checking"
    /\ running[h].colorData = Pending
    /\ \E data \in { extractDocumentColors(colorChecker, layers, TRUE) } :
          EvaluationSettles(h, [running[h] EXCEPT !.colorData = data])

ExtractDocumentFontsOf(h) ==
    /\ running[h].stage = "checking"
    /\ running[h].fontData = Pending
    /\ \E data \in { extractDocumentFonts(fontChecker, layers, TRUE) } :
          EvaluationSettles(h, [running[h] EXCEPT !.fontData = data])

ValidateLogoOf(h) ==
    /\ running[h].stage = "checking"
    /\ running[h].logoData = Pending
    /\ \E data \in { validateLogo(logoChecker, layers, docBounds, TRUE) } :
          EvaluationSettles(h, [running[h] EXCEPT !.logoData = data])

NextConcurrentFix ==
    \E h \in Handlers :
        \/ Click(h)
        \/ FixColorsOf(h)
        \/ FixFontsOf(h)
        \/ FixLogoOf(h)
        \/ ExtractDocumentColorsOf(h)
        \/ ExtractDocumentFontsOf(h)
        \/ ValidateLogoOf(h)

SpecConcurrentFix == InitConcurrentFix /\ [][NextConcurrentFix]_vars

\* Every handler that was started has finished.
AllHandlersFinished ==
    /\ \A h \in Handlers : running[h].stage \in {"idle", "finished"}
    /\ \E h \in Handlers : running[h].stage = "finished"

\* C22: when fix handlers overlap, once all of them have finished, the report
\* held and the score displayed are those of a check that read the document
\* after the last mutation, that is, of the document as the handlers left it.
C22_ScoreNeverStale ==
    AllHandlersFinished =>
        /\ currentComplianceData = ReportOf(layers)
        /\ scoreNumber = <<calculateScore(ReportOf(layers))>>

=============================================================================
